---- MODULE Spec2Model ----
(***************************************************************************)
(* Model of the quiz-session core of amahoot-app: GameService              *)
(* (src/unnamed/part_001) running over the DynamoDB gateway                *)
(* (src/src/demoData.ts, class DynamoDBService).                           *)
(*                                                                         *)
(* Every GameService method is an async function: it runs atomically from  *)
(* one `await` on the store to the next (node's single thread), and calls  *)
(* of different requests interleave at those awaits.  A call is modelled   *)
(* as a process whose pc names the await it is suspended at; one action    *)
(* models one store operation together with the synchronous code that      *)
(* follows it up to the next await.                                        *)
(***************************************************************************)
EXTENDS Integers, Sequences, FiniteSets, TLC

(* ------------------------------ bounds --------------------------------- *)
\* concurrent GameService calls in flight
NProcs == 2
\* session ids uuidv4() can hand out
MaxSessions == 2
\* player ids uuidv4() can hand out
MaxPlayers == 2
\* questions of the quiz used by the sessions
NumQuestions == 2
\* last value of the millisecond clock (it starts at 1; a timestamp of 0
\* stands for an attribute that is not set)
MaxTime == 2
\* WebSocket connections the clients open
NConns == 2

(* --------------------------- program constants ------------------------- *)
\* createSession: `while (!isUnique && attempts < 10)`
MaxAttempts == 10

Procs == 1..NProcs
SessionIds == 1..MaxSessions
Conns == 1..NConns
PlayerIds == 1..MaxPlayers

\* hostId values a caller can pass
Hosts == {"h1", "h2"}
\* quiz ids a caller can pass; only "demo" is in the store
QuizIds == {"demo", "nosuch"}
\* join codes generateJoinCode can draw / a caller can type
Codes == {"AAAAAA", "BBBBBB"}
\* display names a caller can request (a name is a sequence of characters;
\* here the tokens "Ann" and one digit)
Names == {<<"Ann">>, <<"Ann", "2">>}
\* selectedChoice values a caller can pass
ChoiceInputs == {0, 2, 4}

\* The questions of the demo quiz (id, correctAnswer, number of choices,
\* points); the model uses its first NumQuestions questions.
DemoQuestions ==
  << [id |-> "q1", correctAnswer |-> 0, nChoices |-> 4, points |-> 100],
     [id |-> "q2", correctAnswer |-> 2, nChoices |-> 4, points |-> 150],
     [id |-> "q3", correctAnswer |-> 1, nChoices |-> 4, points |-> 50],
     [id |-> "q4", correctAnswer |-> 1, nChoices |-> 4, points |-> 200],
     [id |-> "q5", correctAnswer |-> 2, nChoices |-> 4, points |-> 250] >>

Min(a, b) == IF a < b THEN a ELSE b

QuizQuestions == SubSeq(DemoQuestions, 1, Min(NumQuestions, Len(DemoQuestions)))

\* question ids a caller can pass ("q9" is no question of the quiz)
QuestionIds == {QuizQuestions[i].id : i \in 1..Len(QuizQuestions)} \cup {"q9"}

(* ------------------------------- state --------------------------------- *)
VARIABLES
  sessions,      \* SESSION#id / METADATA items: id -> record or NoSession
  players,       \* SESSION#sid / PLAYER#id items: id -> record or NoPlayer
  joinCodes,     \* JOINCODE#code / SESSION items: code -> session id or 0
  results,       \* GAME_RESULT#sid / METADATA items: sid -> record or NoResult
  resultWrites,  \* history: number of saveGameResult puts per session
  now,           \* the clock read by new Date()
  proc,          \* the GameService calls in flight
  connections,   \* the server's Map of connection key -> WebSocket
  sockets,       \* the WebSocket objects: readyState and the fields set on them
  handler        \* the message handlers in flight

vars == <<sessions, players, joinCodes, results, resultWrites, now, proc,
          connections, sockets, handler>>
store == <<sessions, players, joinCodes, results, resultWrites>>
\* the state of the WebSocket server
net == <<connections, sockets, handler>>

\* a WebSocket as the connection listener leaves it: OPEN, isAlive = true,
\* sessionId, playerId and isHost undefined; answering tells whether the peer
\* still answers (the server cannot see it)
NewSocket ==
  [open |-> TRUE, sessionId |-> 0, playerId |-> "", isHost |-> FALSE,
   isAlive |-> TRUE, answering |-> TRUE]

\* a handler slot in which no message is being handled; out is what the
\* handler has sent so far, one entry per ws.send
IdleHandler == [type |-> "", conn |-> 0, pc |-> "idle", out |-> <<>>]

\* the server right after its connections were accepted
NoServer ==
  /\ connections = <<>>
  /\ sockets = [c \in Conns |-> NewSocket]
  /\ handler = [p \in Procs |-> IdleHandler]

NoSession == [status |-> "none"]
NoPlayer == [sessionId |-> 0]
NoResult == [sessionId |-> 0]

\* a call that is not running
IdleProc ==
  [op |-> "none", pc |-> "idle", sid |-> 0, hostId |-> "", quizId |-> "",
   code |-> "", name |-> <<>>, pid |-> 0, qid |-> "", choice |-> 0,
   attempts |-> 0, idx |-> 0, player |-> NoPlayer, isCorrect |-> FALSE,
   points |-> 0, rank |-> 0, total |-> 0, rsess |-> NoSession,
   rplayers |-> <<>>, result |-> NoResult, ret |-> <<"none">>]

\* the call can be (re)started: it has not begun or has returned
Ready(p) == proc[p].pc \in {"idle", "done"}

(* ------------------------- persistence gateway ------------------------- *)
\* DynamoDBService.getQuiz
getQuiz(quizId) == IF quizId = "demo" THEN QuizQuestions ELSE <<>>

\* mutant: every quiz id is taken for the id of a stored quiz
QuizFound_Always(quizId) == TRUE

\* `if (!quiz)` on the result of getQuiz
QuizFound(quizId) == quizId = "demo"

\* DynamoDBService.getSession: the item or null
getSession(sid) == IF sid \in SessionIds THEN sessions[sid] ELSE NoSession
SessionFound(sess) == sess.status # "none"

\* DynamoDBService.getSessionByJoinCode: `result.Item?.sessionId || null`
getSessionByJoinCode(code) == joinCodes[code]

\* DynamoDBService.getSessionPlayers: the PLAYER# items of the session in
\* sort-key order, as a sequence of [id, name, score, answers] records
RECURSIVE PlayersFrom(_, _)
PlayersFrom(sid, i) ==
  IF i > MaxPlayers THEN <<>>
  ELSE IF players[i].sessionId = sid
       THEN <<players[i]>> \o PlayersFrom(sid, i + 1)
       ELSE PlayersFrom(sid, i + 1)
getSessionPlayers(sid) == PlayersFrom(sid, 1)

\* DynamoDBService.updateSession: SET of the given attributes on the item
updateSessionStatus(sid, status, field, t) ==
  [sessions EXCEPT ![sid] = [@ EXCEPT !.status = status, ![field] = t]]
updateSessionIndex(sid, idx) ==
  [sessions EXCEPT ![sid] = [@ EXCEPT !.currentQuestionIndex = idx]]

\* DynamoDBService.setJoinCode: an unconditional put of the mapping
setJoinCode(code, sid) == [joinCodes EXCEPT ![code] = sid]

\* DynamoDBService.savePlayer: an unconditional put of the player item
savePlayer(player) == [players EXCEPT ![player.id] = player]

\* mutant: the update writes the score and leaves the answers out
updatePlayer_ScoreOnly(pid, score, answers) ==
  [players EXCEPT ![pid] = [@ EXCEPT !.score = score]]

\* DynamoDBService.updatePlayer: SET score and answers on the player item
updatePlayer(pid, score, answers) ==
  [players EXCEPT ![pid] = [@ EXCEPT !.score = score, !.answers = answers]]

\* uuidv4(): an id never handed out before
UsedSessionIds ==
  {s \in SessionIds : SessionFound(sessions[s])}
    \cup {proc[p].sid : p \in {q \in Procs : proc[q].op = "create"}}
FreshSessionIds == SessionIds \ UsedSessionIds
UsedPlayerIds ==
  {i \in PlayerIds : players[i].sessionId # 0}
    \cup {proc[p].player.id : p \in {q \in Procs : proc[q].op = "join" /\ proc[q].player.sessionId # 0}}
FreshPlayerIds == PlayerIds \ UsedPlayerIds

(* ------------------------------- clock --------------------------------- *)
\* time passes between two steps
Tick ==
  /\ now < MaxTime
  /\ now' = now + 1
  /\ UNCHANGED <<store, proc>>
  /\ UNCHANGED net

\* a call p returns v: its locals are dropped, its arguments and result stay
Return(p, v) ==
  [proc[p] EXCEPT !.pc = "done", !.attempts = 0, !.idx = 0,
                  !.player = NoPlayer, !.isCorrect = FALSE, !.points = 0,
                  !.rank = 0, !.total = 0, !.rsess = NoSession,
                  !.rplayers = <<>>, !.result = NoResult, !.ret = v]

\* the arguments of a new call
Call(op, sid, hostId, quizId, code, name, pid, qid, choice) ==
  [IdleProc EXCEPT !.op = op, !.sid = sid, !.hostId = hostId,
                   !.quizId = quizId, !.code = code, !.name = name,
                   !.pid = pid, !.qid = qid, !.choice = choice]

(* --------------------------- createSession ----------------------------- *)
\* createSession up to the quiz check: `getQuiz`, `if (!quiz) return null`
CreateGetQuiz(p, hostId, quizId) ==
  /\ Ready(p)
  /\ LET c == Call("create", 0, hostId, quizId, "", <<>>, 0, "", 0) IN
     proc' = [proc EXCEPT ![p] =
                IF QuizFound(quizId) THEN [c EXCEPT !.pc = "c_code"]
                ELSE [c EXCEPT !.pc = "done", !.ret = <<"null">>]]
  /\ UNCHANGED <<store, now>>
  /\ UNCHANGED net

\* mutant: the loop's exit test with <= for <
TryAgain_OneMore(isUnique, attempts) == ~isUnique /\ attempts <= MaxAttempts

\* the loop's exit test: `while (!isUnique && attempts < 10)`
TryAgain(isUnique, attempts) == ~isUnique /\ attempts < MaxAttempts

\* one round of the do-while: draw a code, look it up, count the attempt;
\* after the loop `if (!isUnique) throw`, else the session id is drawn
CreateTryCode(p, code) ==
  /\ proc[p].pc = "c_code"
  /\ getSessionByJoinCode(code) = 0 => FreshSessionIds # {}
  /\ LET isUnique == getSessionByJoinCode(code) = 0
         attempts == proc[p].attempts + 1
     IN proc' = [proc EXCEPT ![p] =
          IF TryAgain(isUnique, attempts)
          THEN [@ EXCEPT !.attempts = attempts, !.code = code]
          ELSE IF ~isUnique
          THEN [Return(p, <<"null">>) EXCEPT !.code = code]
          ELSE [@ EXCEPT !.attempts = attempts, !.code = code,
                         !.sid = CHOOSE s \in FreshSessionIds :
                                   \A t \in FreshSessionIds : s <= t,
                         !.pc = "c_save"]]
  /\ UNCHANGED <<store, now>>
  /\ UNCHANGED net

\* the session object of createSession (createdAt is written and never read)
NewSession(sid, quizId, hostId, code) ==
  [status |-> "waiting", id |-> sid, quizId |-> quizId, hostId |-> hostId,
   joinCode |-> code, currentQuestionIndex |-> 0, startedAt |-> 0,
   finishedAt |-> 0]

\* `await dynamoService.saveSession(session)`
CreateSaveSession(p) ==
  /\ proc[p].pc = "c_save"
  /\ sessions' = [sessions EXCEPT ![proc[p].sid] =
        NewSession(proc[p].sid, proc[p].quizId, proc[p].hostId, proc[p].code)]
  /\ proc' = [proc EXCEPT ![p].pc = "c_setcode"]
  /\ UNCHANGED <<players, joinCodes, results, resultWrites, now>>
  /\ UNCHANGED net

\* `await dynamoService.setJoinCode(joinCode, sessionId); return session`
CreateSetJoinCode(p) ==
  /\ proc[p].pc = "c_setcode"
  /\ joinCodes' = setJoinCode(proc[p].code, proc[p].sid)
  /\ proc' = [proc EXCEPT ![p] = Return(p, <<"session">>)]
  /\ UNCHANGED <<sessions, players, results, resultWrites, now>>
  /\ UNCHANGED net

(* ----------------------------- joinSession ----------------------------- *)
\* joinSession up to the join-code check
JoinLookup(p, code, name) ==
  /\ Ready(p)
  /\ LET sid == getSessionByJoinCode(code)
         c == Call("join", sid, "", "", code, name, 0, "", 0)
     IN proc' = [proc EXCEPT ![p] =
          IF sid = 0 THEN [c EXCEPT !.pc = "done", !.ret = <<"null">>]
          ELSE [c EXCEPT !.pc = "j_session"]]
  /\ UNCHANGED <<store, now>>
  /\ UNCHANGED net

\* `if (!session) throw`, `if (session.status !== 'waiting') throw`
JoinRejects(sess) == ~SessionFound(sess) \/ sess.status # "waiting"

\* `getSession(sessionId)` and the status check
JoinGetSession(p) ==
  /\ proc[p].pc = "j_session"
  /\ proc' = [proc EXCEPT ![p] =
        IF JoinRejects(getSession(proc[p].sid)) THEN Return(p, <<"null">>)
        ELSE [@ EXCEPT !.pc = "j_players"]]
  /\ UNCHANGED <<store, now>>
  /\ UNCHANGED net

NameTaken(plist, name) == \E i \in 1..Len(plist) : plist[i].name = name

\* `${playerName}${nameCounter}`
Suffixed(name, k) == Append(name, ToString(k))

\* mutant: the first suffixed name is taken without looking at the roster
ProbeName_NoLoop(plist, name, k) == Suffixed(name, k + 1)

\* the while loop over nameCounter, entered with the counter at k
RECURSIVE ProbeName(_, _, _)
ProbeName(plist, name, k) ==
  IF NameTaken(plist, Suffixed(name, k + 1))
  THEN ProbeName(plist, name, k + 1)
  ELSE Suffixed(name, k + 1)

\* uniquePlayerName of joinSession
UniqueName(plist, name) ==
  IF NameTaken(plist, name) THEN ProbeName(plist, name, 1) ELSE name

\* the player object of joinSession (isOnline and joinedAt are written and
\* never read)
NewPlayer(pid, sid, name) ==
  [sessionId |-> sid, id |-> pid, name |-> name, score |-> 0, answers |-> <<>>]

\* `getSessionPlayers`, the name probe and the new player object
JoinGetPlayers(p) ==
  /\ proc[p].pc = "j_players"
  /\ FreshPlayerIds # {}
  /\ LET plist == getSessionPlayers(proc[p].sid)
         pid == CHOOSE i \in FreshPlayerIds : \A j \in FreshPlayerIds : i <= j
     IN proc' = [proc EXCEPT ![p] =
          [@ EXCEPT !.pc = "j_save", !.pid = pid,
                    !.player = NewPlayer(pid, proc[p].sid,
                                         UniqueName(plist, proc[p].name))]]
  /\ UNCHANGED <<store, now>>
  /\ UNCHANGED net

\* `await dynamoService.savePlayer(sessionId, player); return {session, player}`
JoinSavePlayer(p) ==
  /\ proc[p].pc = "j_save"
  /\ players' = savePlayer(proc[p].player)
  /\ proc' = [proc EXCEPT ![p] = Return(p, <<"joined">>)]
  /\ UNCHANGED <<sessions, joinCodes, results, resultWrites, now>>
  /\ UNCHANGED net

(* ------------------------------ startGame ------------------------------ *)
\* mutant: startGame without the host check
StartRejects_NoHostCheck(sess, hostId) ==
  \/ ~SessionFound(sess)
  \/ sess.status # "waiting"

\* the three throws of startGame after getSession
StartRejects(sess, hostId) ==
  \/ ~SessionFound(sess)
  \/ sess.hostId # hostId
  \/ sess.status # "waiting"

\* startGame up to the status check
StartGetSession(p, sid, hostId) ==
  /\ Ready(p)
  /\ LET c == Call("start", sid, hostId, "", "", <<>>, 0, "", 0) IN
     proc' = [proc EXCEPT ![p] =
        IF StartRejects(getSession(sid), hostId)
        THEN [c EXCEPT !.pc = "done", !.ret = <<"false">>]
        ELSE [c EXCEPT !.pc = "s_players"]]
  /\ UNCHANGED <<store, now>>
  /\ UNCHANGED net

\* `if (players.length === 0) throw`
NoPlayers(plist) == Len(plist) = 0

\* `getSessionPlayers` and the roster check
StartGetPlayers(p) ==
  /\ proc[p].pc = "s_players"
  /\ proc' = [proc EXCEPT ![p] =
        IF NoPlayers(getSessionPlayers(proc[p].sid))
        THEN Return(p, <<"false">>)
        ELSE [@ EXCEPT !.pc = "s_update"]]
  /\ UNCHANGED <<store, now>>
  /\ UNCHANGED net

\* `updateSession(sessionId, {status: 'active', startedAt}); return true`
StartUpdate(p) ==
  /\ proc[p].pc = "s_update"
  /\ sessions' = updateSessionStatus(proc[p].sid, "active", "startedAt", now)
  /\ proc' = [proc EXCEPT ![p] = Return(p, <<"true">>)]
  /\ UNCHANGED <<players, joinCodes, results, resultWrites, now>>
  /\ UNCHANGED net

(* ----------------------------- nextQuestion ---------------------------- *)
\* mutant: nextQuestion without the status check
NextRejects_NoStatusCheck(sess, hostId) ==
  \/ ~SessionFound(sess)
  \/ sess.hostId # hostId

\* the three throws of nextQuestion after getSession
NextRejects(sess, hostId) ==
  \/ ~SessionFound(sess)
  \/ sess.hostId # hostId
  \/ sess.status # "active"

\* mutant: the end-of-quiz test with > for >=
QuizOver_Strict(currentIndex, quiz) == currentIndex > Len(quiz)

\* `if (currentIndex >= quiz.questions.length)`
QuizOver(currentIndex, quiz) == currentIndex >= Len(quiz)

\* mutant: the question after the one at currentIndex
QuestionAt_OffByOne(quiz, currentIndex) ==
  IF currentIndex + 2 \in DOMAIN quiz THEN quiz[currentIndex + 2].id
  ELSE "undefined"

\* `quiz.questions[currentIndex]` (sequences are 1-based)
QuestionAt(quiz, currentIndex) ==
  IF currentIndex + 1 \in DOMAIN quiz THEN quiz[currentIndex + 1].id
  ELSE "undefined"

\* nextQuestion up to the end-of-quiz test; past the last question it goes
\* on into finishGame; reading `question.id` of a question that does not
\* exist throws, which returns null
NextGetSession(p, sid, hostId) ==
  /\ Ready(p)
  /\ LET c == Call("next", sid, hostId, "", "", <<>>, 0, "", 0)
         sess == getSession(sid)
     IN proc' = [proc EXCEPT ![p] =
          IF NextRejects(sess, hostId)
          THEN [c EXCEPT !.pc = "done", !.ret = <<"null">>]
          ELSE IF QuizOver(sess.currentQuestionIndex, getQuiz(sess.quizId))
          THEN [c EXCEPT !.pc = "f_get"]
          ELSE IF QuestionAt(getQuiz(sess.quizId), sess.currentQuestionIndex)
                    = "undefined"
          THEN [c EXCEPT !.pc = "done", !.ret = <<"null">>]
          ELSE [c EXCEPT !.pc = "n_update",
                         !.idx = sess.currentQuestionIndex,
                         !.quizId = sess.quizId]]
  /\ UNCHANGED <<store, now>>
  /\ UNCHANGED net

\* mutant: the index is moved back by one
NextIndex_Back(currentIndex) == currentIndex - 1

\* `const nextIndex = currentIndex + 1`
NextIndex(currentIndex) == currentIndex + 1

\* `updateSession(sessionId, {currentQuestionIndex: nextIndex});
\* return question`
NextUpdate(p) ==
  /\ proc[p].pc = "n_update"
  /\ sessions' = updateSessionIndex(proc[p].sid, NextIndex(proc[p].idx))
  /\ proc' = [proc EXCEPT ![p] =
        Return(p, <<"question",
                    QuestionAt(getQuiz(proc[p].quizId), proc[p].idx)>>)]
  /\ UNCHANGED <<players, joinCodes, results, resultWrites, now>>
  /\ UNCHANGED net

(* ------------------------------ finishGame ----------------------------- *)
\* what the call returns when finishGame returns ok: finishGame's own
\* boolean, or nextQuestion's `return null` after `await this.finishGame`
FinishReturn(p, ok) ==
  IF proc[p].op = "next" THEN <<"null">>
  ELSE IF ok THEN <<"true">> ELSE <<"false">>

\* finishGame's first await: `getSession`, `if (!existingSession) return false`
FinishGetSession(p, sid) ==
  /\ \/ Ready(p)
     \/ proc[p].pc = "f_get" /\ sid = proc[p].sid
  /\ LET c == IF Ready(p)
              THEN Call("finish", sid, "", "", "", <<>>, 0, "", 0)
              ELSE proc[p]
     IN proc' = [proc EXCEPT ![p] =
          IF SessionFound(getSession(sid))
          THEN [c EXCEPT !.pc = "f_update"]
          ELSE [c EXCEPT !.pc = "done",
                         !.ret = IF c.op = "next" THEN <<"null">>
                                 ELSE <<"false">>]]
  /\ UNCHANGED <<store, now>>
  /\ UNCHANGED net

\* `updateSession(sessionId, {status: 'finished', finishedAt})`, then into
\* saveGameResult
FinishUpdate(p) ==
  /\ proc[p].pc = "f_update"
  /\ sessions' = updateSessionStatus(proc[p].sid, "finished", "finishedAt", now)
  /\ proc' = [proc EXCEPT ![p].pc = "r_session"]
  /\ UNCHANGED <<players, joinCodes, results, resultWrites, now>>
  /\ UNCHANGED net

(* ---------------------------- saveGameResult --------------------------- *)
\* `getSession`, `if (!session) return`
ResultGetSession(p) ==
  /\ proc[p].pc = "r_session"
  /\ LET sess == getSession(proc[p].sid) IN
     proc' = [proc EXCEPT ![p] =
        IF SessionFound(sess) THEN [@ EXCEPT !.pc = "r_players", !.rsess = sess]
        ELSE Return(p, FinishReturn(p, TRUE))]
  /\ UNCHANGED <<store, now>>
  /\ UNCHANGED net

\* `const players = await dynamoService.getSessionPlayers(sessionId)`
ResultGetPlayers(p) ==
  /\ proc[p].pc = "r_players"
  /\ proc' = [proc EXCEPT ![p] =
        [@ EXCEPT !.pc = "r_board",
                  !.rplayers = getSessionPlayers(proc[p].sid)]]
  /\ UNCHANGED <<store, now>>
  /\ UNCHANGED net

\* mutant: an entry is put before the entries of the same score
RECURSIVE InsertByScore_Before(_, _)
InsertByScore_Before(sorted, e) ==
  IF sorted = <<>> THEN <<e>>
  ELSE IF Head(sorted).score > e.score
       THEN <<Head(sorted)>> \o InsertByScore_Before(Tail(sorted), e)
       ELSE <<e>> \o sorted

\* `leaderboardData.sort((a, b) => b.score - a.score)`: a stable sort, here
\* by inserting each entry behind the entries that score at least as much
RECURSIVE InsertByScore(_, _)
InsertByScore(sorted, e) ==
  IF sorted = <<>> THEN <<e>>
  ELSE IF Head(sorted).score >= e.score
       THEN <<Head(sorted)>> \o InsertByScore(Tail(sorted), e)
       ELSE <<e>> \o sorted
RECURSIVE SortByScore(_)
SortByScore(entries) ==
  IF entries = <<>> THEN <<>>
  ELSE InsertByScore(SortByScore(SubSeq(entries, 1, Len(entries) - 1)),
                     entries[Len(entries)])

\* getLeaderboard's computation on the players it loaded
Leaderboard(plist) ==
  LET data == [i \in 1..Len(plist) |->
                 [playerId |-> plist[i].id, playerName |-> plist[i].name,
                  score |-> plist[i].score]]
      sorted == SortByScore(data)
  IN [i \in 1..Len(sorted) |->
        [playerId |-> sorted[i].playerId, playerName |-> sorted[i].playerName,
         score |-> sorted[i].score, rank |-> i]]

RECURSIVE SumScores(_)
SumScores(plist) ==
  IF plist = <<>> THEN 0 ELSE Head(plist).score + SumScores(Tail(plist))

\* Math.round of the quotient a / b of two naturals, b > 0
RoundDiv(a, b) == (2 * a + b) \div (2 * b)

\* mutant: the mean cut off instead of rounded
AverageScore_CutOff(plist) ==
  IF Len(plist) > 0 THEN SumScores(plist) \div Len(plist) ELSE 0

\* averageScore of saveGameResult
AverageScore(plist) ==
  IF Len(plist) > 0 THEN RoundDiv(SumScores(plist), Len(plist)) ELSE 0

\* `player.answers.filter(answer => answer.questionId === question.id)`
\* over all players, counted (all, or the correct ones only)
RECURSIVE CountAnswers(_, _, _)
CountAnswers(answers, qid, correctOnly) ==
  IF answers = <<>> THEN 0
  ELSE (IF Head(answers).questionId = qid
           /\ (correctOnly => Head(answers).isCorrect) THEN 1 ELSE 0)
       + CountAnswers(Tail(answers), qid, correctOnly)
RECURSIVE CountAllAnswers(_, _, _)
CountAllAnswers(plist, qid, correctOnly) ==
  IF plist = <<>> THEN 0
  ELSE CountAnswers(Head(plist).answers, qid, correctOnly)
       + CountAllAnswers(Tail(plist), qid, correctOnly)

\* questionStats of saveGameResult
QuestionStats(quiz, plist) ==
  [i \in 1..Len(quiz) |->
     [questionId |-> quiz[i].id,
      correctCount |-> CountAllAnswers(plist, quiz[i].id, TRUE),
      totalAnswers |-> CountAllAnswers(plist, quiz[i].id, FALSE)]]

\* the GameResult object of saveGameResult (quizTitle, isPublic and the
\* duration in seconds are not modelled)
GameResultOf(sess, plist, board, t) ==
  [sessionId |-> sess.id, quizId |-> sess.quizId, hostId |-> sess.hostId,
   completedAt |-> t, totalParticipants |-> Len(plist),
   totalQuestions |-> Len(getQuiz(sess.quizId)),
   averageScore |-> AverageScore(plist), leaderboard |-> board,
   questionStats |-> QuestionStats(getQuiz(sess.quizId), plist)]

\* `const leaderboard = await this.getLeaderboard(sessionId)` (its own read
\* of the players) and the construction of the result
ResultGetLeaderboard(p) ==
  /\ proc[p].pc = "r_board"
  /\ proc' = [proc EXCEPT ![p] =
        [@ EXCEPT !.pc = "r_save", !.rsess = NoSession, !.rplayers = <<>>,
                  !.result = GameResultOf(proc[p].rsess, proc[p].rplayers,
                               Leaderboard(getSessionPlayers(proc[p].sid)),
                               now)]]
  /\ UNCHANGED <<store, now>>
  /\ UNCHANGED net

\* the history counter of result puts stops counting here
WritesCap == 3

\* `await dynamoService.saveGameResult(gameResult)`: an unconditional put
ResultSave(p) ==
  /\ proc[p].pc = "r_save"
  /\ results' = [results EXCEPT ![proc[p].sid] = proc[p].result]
  /\ resultWrites' = [resultWrites EXCEPT ![proc[p].sid] = Min(@ + 1, WritesCap)]
  /\ proc' = [proc EXCEPT ![p] = Return(p, FinishReturn(p, TRUE))]
  /\ UNCHANGED <<sessions, players, joinCodes, now>>
  /\ UNCHANGED net

(* --------------------------- failing writes ---------------------------- *)
\* DynamoDBService.updateSession catches the store's error and returns
\* false: finishGame's `if (!updateResult) return false`
FinishUpdateFails(p) ==
  /\ proc[p].pc = "f_update"
  /\ proc' = [proc EXCEPT ![p] = Return(p, FinishReturn(p, FALSE))]
  /\ UNCHANGED <<store, now>>
  /\ UNCHANGED net

\* DynamoDBService.saveGameResult catches the store's error and returns
\* false: saveGameResult logs it and returns, finishGame goes on to
\* `return true`
ResultSaveFails(p) ==
  /\ proc[p].pc = "r_save"
  /\ proc' = [proc EXCEPT ![p] = Return(p, FinishReturn(p, TRUE))]
  /\ UNCHANGED <<store, now>>
  /\ UNCHANGED net

(* ----------------------------- submitAnswer ---------------------------- *)
\* `quiz.questions.find(q => q.id === questionId)`: its index, 0 if none
QuestionIndex(quiz, qid) ==
  IF \E i \in 1..Len(quiz) : quiz[i].id = qid
  THEN CHOOSE i \in 1..Len(quiz) : quiz[i].id = qid
  ELSE 0

\* the throws of submitAnswer after getSession
\* mutant: a submit that takes the question being played only
SubmitRejectsSession_CurrentOnly(sess, qid) ==
  \/ ~SessionFound(sess)
  \/ sess.status # "active"
  \/ QuestionIndex(getQuiz(sess.quizId), qid) = 0
  \/ QuestionIndex(getQuiz(sess.quizId), qid) # sess.currentQuestionIndex

SubmitRejectsSession(sess, qid) ==
  \/ ~SessionFound(sess)
  \/ sess.status # "active"
  \/ QuestionIndex(getQuiz(sess.quizId), qid) = 0

\* submitAnswer up to the question lookup
SubmitGetSession(p, sid, pid, qid, choice) ==
  /\ Ready(p)
  /\ LET c == Call("submit", sid, "", "", "", <<>>, pid, qid, choice)
         sess == getSession(sid)
     IN proc' = [proc EXCEPT ![p] =
          IF SubmitRejectsSession(sess, qid)
          THEN [c EXCEPT !.pc = "done", !.ret = <<"null">>]
          ELSE [c EXCEPT !.pc = "a_players", !.quizId = sess.quizId]]
  /\ UNCHANGED <<store, now>>
  /\ UNCHANGED net

\* `players.find(p => p.id === playerId)`: its index, 0 if none
PlayerIndex(plist, pid) ==
  IF \E i \in 1..Len(plist) : plist[i].id = pid
  THEN CHOOSE i \in 1..Len(plist) : plist[i].id = pid
  ELSE 0

\* `player.answers.find(a => a.questionId === questionId)`
HasAnswer(answers, qid) ==
  \E i \in 1..Len(answers) : answers[i].questionId = qid

\* mutant: the choice validation without the upper limit
InvalidChoice_NoUpper(choice, question) == choice < 0

\* `selectedChoice < 0 || selectedChoice >= question.choices.length`
InvalidChoice(choice, question) == choice < 0 \/ choice >= question.nChoices

\* the PlayerAnswer object (timeToAnswer is passed through and never read)
NewAnswer(qid, choice, isCorrect, points, t) ==
  [questionId |-> qid, selectedChoice |-> choice, isCorrect |-> isCorrect,
   points |-> points, submittedAt |-> t]

\* `player.answers.push(answer); player.score += points`
WithAnswer(player, answer) ==
  [player EXCEPT !.answers = Append(@, answer), !.score = @ + answer.points]

\* `getSessionPlayers`, the player lookup, the duplicate check and the
\* choice validation; a wrong answer is recorded with 0 points right away
SubmitGetPlayers(p) ==
  /\ proc[p].pc = "a_players"
  /\ LET plist == getSessionPlayers(proc[p].sid)
         i == PlayerIndex(plist, proc[p].pid)
         quiz == getQuiz(proc[p].quizId)
         question == quiz[QuestionIndex(quiz, proc[p].qid)]
     IN proc' = [proc EXCEPT ![p] =
          IF i = 0 THEN Return(p, <<"null">>)
          ELSE IF HasAnswer(plist[i].answers, proc[p].qid)
          THEN Return(p, <<"null">>)
          ELSE IF InvalidChoice(proc[p].choice, question)
          THEN Return(p, <<"null">>)
          ELSE IF proc[p].choice = question.correctAnswer
          THEN [@ EXCEPT !.pc = "a_rank", !.player = plist[i],
                         !.isCorrect = TRUE]
          ELSE [@ EXCEPT !.pc = "a_update", !.isCorrect = FALSE,
                         !.player = WithAnswer(plist[i],
                            NewAnswer(proc[p].qid, proc[p].choice, FALSE, 0, now))]]
  /\ UNCHANGED <<store, now>>
  /\ UNCHANGED net

\* `p.answers.find(a => a.questionId === questionId && a.isCorrect === true)`:
\* the submission time of the first such answer, -1 if none
RECURSIVE CorrectAnswerTime(_, _)
CorrectAnswerTime(answers, qid) ==
  IF answers = <<>> THEN -1
  ELSE IF Head(answers).questionId = qid /\ Head(answers).isCorrect
       THEN Head(answers).submittedAt
       ELSE CorrectAnswerTime(Tail(answers), qid)

\* correctAnswersForQuestion after the loop over allPlayers
RECURSIVE CollectCorrect(_, _)
CollectCorrect(plist, qid) ==
  IF plist = <<>> THEN <<>>
  ELSE LET t == CorrectAnswerTime(Head(plist).answers, qid) IN
       (IF t >= 0 THEN <<[playerId |-> Head(plist).id, submittedAt |-> t]>>
        ELSE <<>>) \o CollectCorrect(Tail(plist), qid)

\* mutant: an entry is put before the entries of the same time
RECURSIVE InsertByTime_TiesFirst(_, _)
InsertByTime_TiesFirst(sorted, e) ==
  IF sorted = <<>> THEN <<e>>
  ELSE IF Head(sorted).submittedAt < e.submittedAt
       THEN <<Head(sorted)>> \o InsertByTime_TiesFirst(Tail(sorted), e)
       ELSE <<e>> \o sorted

\* `sort((a, b) => a.submittedAt.getTime() - b.submittedAt.getTime())`: a
\* stable sort, earliest first
RECURSIVE InsertByTime(_, _)
InsertByTime(sorted, e) ==
  IF sorted = <<>> THEN <<e>>
  ELSE IF Head(sorted).submittedAt <= e.submittedAt
       THEN <<Head(sorted)>> \o InsertByTime(Tail(sorted), e)
       ELSE <<e>> \o sorted
RECURSIVE SortByTime(_)
SortByTime(entries) ==
  IF entries = <<>> THEN <<>>
  ELSE InsertByTime(SortByTime(SubSeq(entries, 1, Len(entries) - 1)),
                    entries[Len(entries)])

\* `findIndex(a => a.playerId === playerId) + 1`
RankOf(sorted, pid) ==
  IF \E i \in 1..Len(sorted) : sorted[i].playerId = pid
  THEN CHOOSE i \in 1..Len(sorted) :
         /\ sorted[i].playerId = pid
         /\ \A j \in 1..(i - 1) : sorted[j].playerId # pid
  ELSE 0

Max(a, b) == IF a > b THEN a ELSE b

\* mutant: the percentage taken from rank / totalCorrect, for every total
Points_FromRank(basePoints, rank, totalCorrect) ==
  Max(RoundDiv(basePoints * (2 * totalCorrect - rank), 2 * totalCorrect),
      RoundDiv(3 * basePoints, 10))

\* mutant: the scoring with the quotients cut off instead of rounded
Points_RoundDown(basePoints, rank, totalCorrect) ==
  IF totalCorrect = 1 THEN basePoints
  ELSE Max((basePoints * (2 * totalCorrect - rank + 1)) \div (2 * totalCorrect),
           (3 * basePoints) \div 10)

\* the dynamic scoring of a correct answer:
\*   rankPercentage = 1.0 - ((rank - 1) / totalCorrect) * 0.5
\*   points = max(round(basePoints * rankPercentage), round(basePoints * 0.3))
\* in exact arithmetic: basePoints * (2t - r + 1) / (2t), and 3 * basePoints / 10
Points(basePoints, rank, totalCorrect) ==
  IF totalCorrect = 1 THEN basePoints
  ELSE Max(RoundDiv(basePoints * (2 * totalCorrect - rank + 1), 2 * totalCorrect),
           RoundDiv(3 * basePoints, 10))

\* `let points = 0` and the `if (isCorrect)` branch that sets them
Award(isCorrect, basePoints, rank, totalCorrect) ==
  IF isCorrect THEN Points(basePoints, rank, totalCorrect) ELSE 0

\* the second `getSessionPlayers` (allPlayers), the ranking and the points of
\* a correct answer, and the answer record
SubmitRank(p) ==
  /\ proc[p].pc = "a_rank"
  /\ LET allPlayers == getSessionPlayers(proc[p].sid)
         sorted == SortByTime(Append(CollectCorrect(allPlayers, proc[p].qid),
                      [playerId |-> proc[p].pid, submittedAt |-> now]))
         rank == RankOf(sorted, proc[p].pid)
         total == Len(sorted)
         quiz == getQuiz(proc[p].quizId)
         question == quiz[QuestionIndex(quiz, proc[p].qid)]
         points == Points(question.points, rank, total)
     IN proc' = [proc EXCEPT ![p] =
          [@ EXCEPT !.pc = "a_update", !.rank = rank, !.total = total,
                    !.points = points,
                    !.player = WithAnswer(proc[p].player,
                       NewAnswer(proc[p].qid, proc[p].choice, TRUE, points, now))]]
  /\ UNCHANGED <<store, now>>
  /\ UNCHANGED net

\* `updatePlayer(sessionId, playerId, {score, answers})` and the result
SubmitUpdate(p) ==
  /\ proc[p].pc = "a_update"
  /\ players' = updatePlayer(proc[p].pid, proc[p].player.score,
                             proc[p].player.answers)
  /\ proc' = [proc EXCEPT ![p] =
        Return(p, <<"answer", proc[p].isCorrect, proc[p].points,
                    proc[p].rank, proc[p].total>>)]
  /\ UNCHANGED <<sessions, joinCodes, results, resultWrites, now>>
  /\ UNCHANGED net

(* --------------------------- specifications ---------------------------- *)
\* session ids a caller can name: the ids of the store and an unknown one
AnySessionIds == SessionIds \cup {0}
\* session ids a caller names in the one-session specifications: session 1
\* and an id the store does not hold
CallSessionIds == {0, 1}
\* player ids a caller can name: the ids of the store and an unknown one
CallPlayerIds == PlayerIds \cup {0}

EmptyStore ==
  /\ sessions = [s \in SessionIds |-> NoSession]
  /\ players = [i \in PlayerIds |-> NoPlayer]
  /\ joinCodes = [c \in Codes |-> 0]
  /\ results = [s \in SessionIds |-> NoResult]
  /\ resultWrites = [s \in SessionIds |-> 0]

\* the server after start-up: an empty table and no call in flight
Init ==
  /\ EmptyStore
  /\ now = 1
  /\ proc = [p \in Procs |-> IdleProc]
  /\ NoServer

Create(p) ==
  \/ \E h \in Hosts, q \in QuizIds : CreateGetQuiz(p, h, q)
  \/ \E c \in Codes : CreateTryCode(p, c)
  \/ CreateSaveSession(p)
  \/ CreateSetJoinCode(p)

Join(p, names) ==
  \/ \E c \in Codes, n \in names : JoinLookup(p, c, n)
  \/ JoinGetSession(p)
  \/ JoinGetPlayers(p)
  \/ JoinSavePlayer(p)

Start(p, sids) ==
  \/ \E s \in sids, h \in Hosts : StartGetSession(p, s, h)
  \/ StartGetPlayers(p)
  \/ StartUpdate(p)

Advance(p, sids) ==
  \/ \E s \in sids, h \in Hosts : NextGetSession(p, s, h)
  \/ NextUpdate(p)

Finish(p, sids) ==
  \/ \E s \in sids : FinishGetSession(p, s)
  \/ FinishUpdate(p)
  \/ ResultGetSession(p)
  \/ ResultGetPlayers(p)
  \/ ResultGetLeaderboard(p)
  \/ ResultSave(p)

\* answers: the (playerId, questionId, selectedChoice) triples the callers send
Submit(p, sids, answers) ==
  \/ \E s \in sids, a \in answers : SubmitGetSession(p, s, a[1], a[2], a[3])
  \/ SubmitGetPlayers(p)
  \/ SubmitRank(p)
  \/ SubmitUpdate(p)

\* the whole service from an empty table
NextAll ==
  \/ Tick
  \/ \E p \in Procs :
       \/ Create(p) \/ Join(p, Names)
       \/ Start(p, AnySessionIds) \/ Advance(p, AnySessionIds)
       \/ Finish(p, AnySessionIds)
       \/ Submit(p, AnySessionIds, CallPlayerIds \X QuestionIds \X ChoiceInputs)

SpecAll == Init /\ [][NextAll]_vars

\* a store holding one session as createSession("h1", "demo") leaves it
OneSession(status, index, startedAt) ==
  /\ sessions = [s \in SessionIds |->
       IF s = 1
       THEN [NewSession(1, "demo", "h1", "AAAAAA") EXCEPT
               !.status = status, !.currentQuestionIndex = index,
               !.startedAt = startedAt]
       ELSE NoSession]
  /\ joinCodes = [c \in Codes |-> IF c = "AAAAAA" THEN 1 ELSE 0]
  /\ results = [s \in SessionIds |-> NoResult]
  /\ resultWrites = [s \in SessionIds |-> 0]

\* the lobby: host h1 has created session 1 and nobody has joined yet
InitLobby ==
  /\ OneSession("waiting", 0, 0)
  /\ players = [i \in PlayerIds |-> NoPlayer]
  /\ now = 1
  /\ proc = [p \in Procs |-> IdleProc]
  /\ NoServer

\* the life of a session from the lobby on: joins, start, advance, finish
Next ==
  \/ Tick
  \/ \E p \in Procs :
       \/ Join(p, {<<"Ann">>})
       \/ Start(p, CallSessionIds) \/ Advance(p, CallSessionIds)
       \/ Finish(p, CallSessionIds)

Spec == InitLobby /\ [][Next]_vars

\* a game in progress: session 1 was started with the players Ann and Ann2
\* and its first question has been served
InitGame ==
  /\ OneSession("active", 1, 1)
  /\ players = [i \in PlayerIds |->
       IF i = 1 THEN NewPlayer(1, 1, <<"Ann">>)
       ELSE IF i = 2 THEN NewPlayer(2, 1, <<"Ann", "2">>)
       ELSE NoPlayer]
  /\ now = 1
  /\ proc = [p \in Procs |-> IdleProc]
  /\ NoServer

\* the answers sent in a game in progress: player 1 sends the right or a
\* wrong choice for q1 and the right choice for q2, player 2 the right choice
\* for q1
GameAnswers == {<<1, "q1", 0>>, <<1, "q1", 2>>, <<1, "q2", 2>>, <<2, "q1", 0>>}

\* the answers of a game in progress
NextSubmit ==
  \/ Tick
  \/ \E p \in Procs :
       Submit(p, {1}, GameAnswers)

SpecSubmit == InitGame /\ [][NextSubmit]_vars

\* two games side by side: session 1 of host h1 is active with the player
\* Ann and its first question served, session 2 of host h2 is still waiting
\* with the player Bob
InitTwoGames ==
  /\ sessions = [s \in SessionIds |->
       IF s = 1
       THEN [NewSession(1, "demo", "h1", "AAAAAA") EXCEPT
               !.status = "active", !.currentQuestionIndex = 1, !.startedAt = 1]
       ELSE IF s = 2 THEN NewSession(2, "demo", "h2", "BBBBBB")
       ELSE NoSession]
  /\ joinCodes = [c \in Codes |->
       IF c = "AAAAAA" THEN 1 ELSE IF c = "BBBBBB" THEN 2 ELSE 0]
  /\ results = [s \in SessionIds |-> NoResult]
  /\ resultWrites = [s \in SessionIds |-> 0]
  /\ players = [i \in PlayerIds |->
       IF i = 1 THEN NewPlayer(1, 1, <<"Ann">>)
       ELSE IF i = 2 THEN NewPlayer(2, 2, <<"Bob">>)
       ELSE NoPlayer]
  /\ now = 1
  /\ proc = [p \in Procs |-> IdleProc]
  /\ NoServer

\* the answers sent to the two games: good ones of player 1 for q1, an
\* unknown question, the player of the other session, an unknown player,
\* and choices beyond either end of the choice list
AnyAnswers ==
  {<<1, "q1", 0>>, <<1, "q1", 2>>, <<1, "q9", 0>>, <<2, "q1", 0>>,
   <<0, "q1", 0>>, <<1, "q1", 4>>, <<1, "q1", -1>>}

\* submits of any kind to any session
NextAnswers ==
  \/ Tick
  \/ \E p \in Procs : Submit(p, AnySessionIds, AnyAnswers)

SpecAnswers == InitTwoGames /\ [][NextAnswers]_vars

\* the largest number of correct answers to one question in the scoring runs
MaxCorrect == 4

\* submits of player 1 that have reached the scoring: a wrong answer, or a
\* correct one ranked r-th of t correct answers
ScoringCalls ==
  {[Call("submit", 1, "", "", "", <<>>, 1, QuizQuestions[k].id,
         (QuizQuestions[k].correctAnswer + 1) % QuizQuestions[k].nChoices)
      EXCEPT !.pc = "a_score", !.quizId = "demo"] : k \in 1..Len(QuizQuestions)}
  \cup
  {[Call("submit", 1, "", "", "", <<>>, 1, QuizQuestions[k].id,
         QuizQuestions[k].correctAnswer)
      EXCEPT !.pc = "a_score", !.quizId = "demo", !.isCorrect = TRUE,
             !.rank = rt[1], !.total = rt[2]] :
     k \in 1..Len(QuizQuestions),
     rt \in {x \in (1..MaxCorrect) \X (1..MaxCorrect) : x[1] <= x[2]}}

\* a game in progress with submits at the scoring, for every rank and number
\* of correct answers
InitScoring ==
  /\ OneSession("active", 1, 1)
  /\ players = [i \in PlayerIds |->
       IF i = 1 THEN NewPlayer(1, 1, <<"Ann">>) ELSE NoPlayer]
  /\ now = 1
  /\ proc \in [Procs -> ScoringCalls]
  /\ NoServer

\* the scoring of submitAnswer: `isCorrect`, `points`, and the result object
ScoreAnswer(p) ==
  /\ proc[p].pc = "a_score"
  /\ LET quiz == getQuiz(proc[p].quizId)
         question == quiz[QuestionIndex(quiz, proc[p].qid)]
         isCorrect == proc[p].choice = question.correctAnswer
         points == Award(isCorrect, question.points, proc[p].rank, proc[p].total)
     IN proc' = [proc EXCEPT ![p] =
          Return(p, <<"answer", isCorrect, points, proc[p].rank, proc[p].total>>)]
  /\ UNCHANGED <<store, now>>
  /\ UNCHANGED net

NextScoring == \E p \in Procs : ScoreAnswer(p)

SpecScoring == InitScoring /\ [][NextScoring]_vars

\* the largest roster a join reads in the naming runs
MaxRoster == 3

\* the names on those rosters, and the names requested
RosterNames == {<<"Ann">>, <<"Ann", "2">>, <<"Ann", "3">>, <<"Bob">>}
RequestedNames == {<<"Ann">>, <<"Ann", "2">>, <<"Bob">>}

\* rosters of up to MaxRoster players with different names, as
\* getSessionPlayers returns them
Rosters ==
  UNION {{[i \in 1..n |-> NewPlayer(i, 1, f[i])] :
            f \in {g \in [1..n -> RosterNames] :
                      \A a, b \in 1..n : g[a] = g[b] => a = b}} :
         n \in 0..MaxRoster}

\* joins of session 1 that have read the roster: call 1 with any roster and
\* requested name
InitNaming ==
  /\ OneSession("waiting", 0, 0)
  /\ players = [i \in PlayerIds |-> NoPlayer]
  /\ now = 1
  /\ \E r \in Rosters, n \in RequestedNames :
       proc = [p \in Procs |->
         IF p = 1
         THEN [Call("join", 1, "", "", "AAAAAA", n, 0, "", 0)
                 EXCEPT !.pc = "j_name", !.rplayers = r]
         ELSE IdleProc]
  /\ NoServer

\* the name probe and the player object of joinSession on the roster read
JoinName(p) ==
  /\ proc[p].pc = "j_name"
  /\ proc' = [proc EXCEPT ![p] =
        [@ EXCEPT !.pc = "done",
                  !.player = NewPlayer(Len(proc[p].rplayers) + 1, proc[p].sid,
                               UniqueName(proc[p].rplayers, proc[p].name)),
                  !.ret = <<"player">>]]
  /\ UNCHANGED <<store, now>>
  /\ UNCHANGED net

NextNaming == \E p \in Procs : JoinName(p)

SpecNaming == InitNaming /\ [][NextNaming]_vars

\* the states a player of session 1 can be in after the first two questions:
\* no answer, q1 right as first or as second of two, q1 wrong, q1 and q2 right
ScoredPlayers(i) ==
  LET p0 == NewPlayer(i, 1, <<"Ann", ToString(i)>>) IN
  {p0,
   WithAnswer(p0, NewAnswer("q1", 0, TRUE, 100, 1)),
   WithAnswer(p0, NewAnswer("q1", 0, TRUE, 75, 1)),
   WithAnswer(p0, NewAnswer("q1", 2, FALSE, 0, 1)),
   WithAnswer(WithAnswer(p0, NewAnswer("q1", 0, TRUE, 100, 1)),
              NewAnswer("q2", 2, TRUE, 150, 1))}

\* the player lists getSessionPlayers can return for such a session
ScoredRosters ==
  UNION {{r \in [1..n -> UNION {ScoredPlayers(i) : i \in 1..n}] :
            \A i \in 1..n : r[i] \in ScoredPlayers(i)} : n \in 0..MaxRoster}

\* getLeaderboard calls that have read the players of session 1
InitBoard ==
  /\ OneSession("active", 2, 1)
  /\ players = [i \in PlayerIds |-> NoPlayer]
  /\ now = 1
  /\ \E r \in ScoredRosters :
       proc = [p \in Procs |->
         IF p = 1
         THEN [Call("leaderboard", 1, "", "", "", <<>>, 0, "", 0)
                 EXCEPT !.pc = "l_rank", !.rplayers = r]
         ELSE IdleProc]
  /\ NoServer

\* getLeaderboard after its read: map, sort, rank
RankPlayers(p) ==
  /\ proc[p].pc = "l_rank"
  /\ proc' = [proc EXCEPT ![p] =
        [@ EXCEPT !.pc = "done",
                  !.ret = <<"leaderboard", Leaderboard(proc[p].rplayers)>>]]
  /\ UNCHANGED <<store, now>>
  /\ UNCHANGED net

NextBoard == \E p \in Procs : RankPlayers(p)

SpecBoard == InitBoard /\ [][NextBoard]_vars

\* a game whose two questions have been served, with any players in the
\* states their submits can have left them in
InitResults ==
  /\ OneSession("active", 2, 1)
  /\ players \in [PlayerIds -> UNION {ScoredPlayers(i) : i \in PlayerIds}
                                 \cup {NoPlayer}]
  /\ \A i \in PlayerIds : players[i] \in ScoredPlayers(i) \cup {NoPlayer}
  /\ now = 1
  /\ proc = [p \in Procs |-> IdleProc]
  /\ NoServer

\* the game is finished, by one call or by several
NextResults == \E p \in Procs : Finish(p, {1})

SpecResults == InitResults /\ [][NextResults]_vars

\* session creation from an empty table
NextCreate == \E p \in Procs : Create(p)

SpecCreate == Init /\ [][NextCreate]_vars

\* a started game: session 1 is active with the player Ann and no question
\* has been served yet
InitActive ==
  /\ OneSession("active", 0, 1)
  /\ players = [i \in PlayerIds |->
       IF i = 1 THEN NewPlayer(1, 1, <<"Ann">>) ELSE NoPlayer]
  /\ now = 1
  /\ proc = [p \in Procs |-> IdleProc]
  /\ NoServer

\* the caller sends a request only when no other request is in flight
HostTurn(p) == \A q \in Procs \ {p} : Ready(q)

\* a host that advances a started game one request at a time; an advance past
\* the last question runs on into finishGame and saveGameResult
NextHost ==
  \/ Tick
  \/ \E p \in Procs :
       /\ HostTurn(p)
       /\ \/ Advance(p, CallSessionIds)
          \/ ~Ready(p) /\ Finish(p, CallSessionIds)

SpecHost == InitActive /\ [][NextHost]_vars

\* the steps of the host's own advances on session 1
HostAdvances ==
  \E p \in Procs :
    /\ HostTurn(p)
    /\ \/ NextGetSession(p, 1, "h1")
       \/ NextUpdate(p)
       \/ ~Ready(p) /\ Finish(p, {1})

\* the host keeps advancing, and every continuation whose await has resolved
\* is run by the event loop
LiveHost == SpecHost /\ WF_vars(HostAdvances)

\* a game whose questions have been served, finished by calls whose writes
\* the store may refuse
InitFailing ==
  /\ OneSession("active", 2, 1)
  /\ players = [i \in PlayerIds |->
       IF i = 1 THEN NewPlayer(1, 1, <<"Ann">>) ELSE NoPlayer]
  /\ now = 1
  /\ proc = [p \in Procs |-> IdleProc]
  /\ NoServer

NextFailing ==
  \/ Tick
  \/ \E p \in Procs :
       Finish(p, {1}) \/ FinishUpdateFails(p) \/ ResultSaveFails(p)

SpecFailing == InitFailing /\ [][NextFailing]_vars

\* a game in progress in which every player id has joined
InitSequential ==
  /\ OneSession("active", 1, 1)
  /\ players = [i \in PlayerIds |-> NewPlayer(i, 1, <<"Ann", ToString(i)>>)]
  /\ now = 1
  /\ proc = [p \in Procs |-> IdleProc]
  /\ NoServer

\* the answers of the players: the right or a wrong choice for q1, the
\* right choice for q2
SequentialAnswers ==
  {<<i, "q1", 0>> : i \in PlayerIds} \cup {<<i, "q1", 2>> : i \in PlayerIds}
    \cup {<<i, "q2", 2>> : i \in PlayerIds}

\* submits processed one at a time: a submit begins when no call is running
NextSequential ==
  \/ Tick
  \/ \E p \in Procs :
       \/ /\ \A q \in Procs : Ready(q)
          /\ \E a \in SequentialAnswers :
               SubmitGetSession(p, 1, a[1], a[2], a[3])
       \/ SubmitGetPlayers(p)
       \/ SubmitRank(p)
       \/ SubmitUpdate(p)

SpecSequential == InitSequential /\ [][NextSequential]_vars

\* the answers of player Ann while the host plays the quiz: the right or a
\* wrong choice for q1 and the right choice for q2
PlayAnswers == {<<1, "q1", 0>>, <<1, "q1", 2>>, <<1, "q2", 2>>}

\* a started game played to its end: the host h1 advances through the quiz
\* and past its last question while the player's submits run alongside
NextPlay ==
  \/ Tick
  \/ \E p \in Procs :
       \/ NextGetSession(p, 1, "h1")
       \/ NextUpdate(p)
       \/ (~Ready(p) /\ Finish(p, {1}))
       \/ Submit(p, {1}, PlayAnswers)

SpecPlay == InitActive /\ [][NextPlay]_vars

(* --------------------------- WebSocket server -------------------------- *)
\* The handlers run on the same event loop as the GameService calls they
\* await.  A handler p keeps its position in handler[p] and the call it
\* awaits in proc[p]: the synchronous code up to an `await gameService.x(..)`
\* is one step and leaves the call pending (proc[p].pc = "idle"); the call's
\* store accesses are the steps of the service; the code after the await is
\* one step, taken once the call has returned (proc[p].pc = "done").

\* the keys of messageHandlers
messageHandlers ==
  {"host_join", "player_join", "start_game", "next_question", "submit_answer",
   "reveal_answer", "get_session_results", "ping", "get_public_game_results",
   "get_game_result", "finish_game"}

\* the client-to-server message types of MessageType
CatalogTypes ==
  {"host_join", "start_game", "next_question", "reveal_answer", "end_game",
   "player_join", "submit_answer"}

\* one ws.send: the receiving connection, the message type and, for an
\* error, its code
Delivery(ws, type, code) == [to |-> ws, type |-> type, code |-> code]

\* sendMessage: `if (ws.readyState === WebSocket.OPEN) ws.send(..)`
sendMessage(out, socks, ws, type, code) ==
  IF socks[ws].open THEN Append(out, Delivery(ws, type, code)) ELSE out

\* mutant: a broadcast that does not look at the session of a connection
RECURSIVE broadcastToSession_All(_, _, _, _, _, _)
broadcastToSession_All(out, conns, socks, sessionId, type, excludeWs) ==
  IF conns = <<>> THEN out
  ELSE broadcastToSession_All(
         IF Head(conns).ws # excludeWs
         THEN sendMessage(out, socks, Head(conns).ws, type, "") ELSE out,
         Tail(conns), socks, sessionId, type, excludeWs)

\* broadcastToSession: connections.forEach in insertion order
RECURSIVE broadcastToSession(_, _, _, _, _, _)
broadcastToSession(out, conns, socks, sessionId, type, excludeWs) ==
  IF conns = <<>> THEN out
  ELSE LET ws == Head(conns).ws
           sent == IF socks[ws].sessionId = sessionId /\ ws # excludeWs
                   THEN sendMessage(out, socks, ws, type, "")
                   ELSE out
       IN broadcastToSession(sent, Tail(conns), socks, sessionId, type,
                             excludeWs)

\* sendToHost: connections.forEach in insertion order
RECURSIVE sendToHost(_, _, _, _, _)
sendToHost(out, conns, socks, sessionId, type) ==
  IF conns = <<>> THEN out
  ELSE LET ws == Head(conns).ws
           sent == IF socks[ws].sessionId = sessionId /\ socks[ws].isHost
                   THEN sendMessage(out, socks, ws, type, "")
                   ELSE out
       IN sendToHost(sent, Tail(conns), socks, sessionId, type)

\* the connection key `${session.id}-${id}`
ConnectionKey(sid, id) == <<sid, id>>

\* connections.set(key, ws): a new key is added at the end, a key already
\* in the Map keeps its place
connectionsSet(conns, key, ws) ==
  IF \E i \in 1..Len(conns) : conns[i].key = key
  THEN [i \in 1..Len(conns) |->
          IF conns[i].key = key THEN [key |-> key, ws |-> ws] ELSE conns[i]]
  ELSE Append(conns, [key |-> key, ws |-> ws])

\* the close listener's loop: every entry whose value is ws is deleted
connectionsDelete(conns, ws) == SelectSeq(conns, LAMBDA e : e.ws # ws)

\* a slot of the event loop that can take a message
Free(p) == handler[p].pc \in {"idle", "done"}
\* the handler is at `await gameService.svc(..)` and the call has not yet
\* reached the store / has returned
Pending(p, svc) == handler[p].pc = svc /\ proc[p].pc = "idle"
Resumed(p, svc) == handler[p].pc = svc /\ proc[p].pc = "done"

\* the message listener takes a message of connection ws; the handler goes
\* to pc, having sent out and left the call pending
Handle(p, ws, type, pc, out, call) ==
  /\ Free(p)
  /\ sockets[ws].open
  /\ handler' = [handler EXCEPT ![p] =
       [type |-> type, conn |-> ws, pc |-> pc, out |-> out]]
  /\ proc' = [proc EXCEPT ![p] = call]
  /\ UNCHANGED <<store, now, connections, sockets>>

\* a handler ends with a last send, or goes on to its next await
Finished(p, out) ==
  /\ handler' = [handler EXCEPT ![p].pc = "done", ![p].out = out]
  /\ UNCHANGED <<store, now, proc>>
Awaits(p, svc) ==
  /\ handler' = [handler EXCEPT ![p].pc = svc]
  /\ proc' = [proc EXCEPT ![p].pc = "idle"]
  /\ UNCHANGED <<store, now, connections, sockets>>

\* the reply of a host-only handler to a connection that is not a host
Unauthorized(p, ws, type) ==
  Handle(p, ws, type, "done",
         sendMessage(<<>>, sockets, ws, "error", "UNAUTHORIZED"), proc[p])

\* mutant: a message of an unknown type is dropped without a reply
UnknownType_Silent(p, ws, type) ==
  /\ type \notin messageHandlers
  /\ Handle(p, ws, type, "done", <<>>, proc[p])

\* message listener: `messageHandlers[message.type]` is undefined
UnknownType(p, ws, type) ==
  /\ type \notin messageHandlers
  /\ Handle(p, ws, type, "done",
            sendMessage(<<>>, sockets, ws, "error", "UNKNOWN_MESSAGE_TYPE"),
            proc[p])

\* message listener: JSON.parse throws
Malformed(p, ws) ==
  Handle(p, ws, "", "done",
         sendMessage(<<>>, sockets, ws, "error", "INVALID_MESSAGE_FORMAT"),
         proc[p])

\* ping handler
Ping(p, ws) ==
  Handle(p, ws, "ping", "done", sendMessage(<<>>, sockets, ws, "pong", ""),
         proc[p])

\* host_join up to `await gameService.createSession(hostId, quizId)`; "" is
\* a hostId or quizId that is missing
HostJoin(p, ws, hostId, quizId) ==
  IF hostId = "" \/ quizId = ""
  THEN Handle(p, ws, "host_join", "done",
              sendMessage(<<>>, sockets, ws, "error", "MISSING_PARAMETERS"),
              proc[p])
  ELSE Handle(p, ws, "host_join", "createSession", <<>>,
              Call("create", 0, hostId, quizId, "", <<>>, 0, "", 0))

CallCreateSession(p) ==
  /\ Pending(p, "createSession")
  /\ CreateGetQuiz(p, proc[p].hostId, proc[p].quizId)

\* host_join after the await
HostJoined(p) ==
  /\ Resumed(p, "createSession")
  /\ LET ws == handler[p].conn
         sid == proc[p].sid
         socks == [sockets EXCEPT ![ws].sessionId = sid,
                                  ![ws].playerId = proc[p].hostId,
                                  ![ws].isHost = TRUE]
     IN IF proc[p].ret = <<"null">>
        THEN /\ Finished(p, sendMessage(handler[p].out, sockets, ws, "error",
                                        "SESSION_CREATE_ERROR"))
             /\ UNCHANGED <<connections, sockets>>
        ELSE /\ sockets' = socks
             /\ connections' =
                  connectionsSet(connections,
                                 ConnectionKey(sid, proc[p].hostId), ws)
             /\ Finished(p, sendMessage(handler[p].out, socks, ws,
                                        "session_created", ""))

\* player_join up to `await gameService.joinSession(joinCode, playerName)`
PlayerJoin(p, ws, code, name) ==
  Handle(p, ws, "player_join", "joinSession", <<>>,
         Call("join", 0, "", "", code, name, 0, "", 0))

CallJoinSession(p) ==
  /\ Pending(p, "joinSession")
  /\ JoinLookup(p, proc[p].code, proc[p].name)

\* player_join after the await
PlayerJoined(p) ==
  /\ Resumed(p, "joinSession")
  /\ LET ws == handler[p].conn
         sid == proc[p].sid
         id == ToString(proc[p].pid)
         socks == [sockets EXCEPT ![ws].sessionId = sid,
                                  ![ws].playerId = id,
                                  ![ws].isHost = FALSE]
         conns == connectionsSet(connections, ConnectionKey(sid, id), ws)
     IN IF proc[p].ret = <<"null">>
        THEN /\ Finished(p, sendMessage(handler[p].out, sockets, ws, "error",
                                        "SESSION_JOIN_ERROR"))
             /\ UNCHANGED <<connections, sockets>>
        ELSE /\ sockets' = socks
             /\ connections' = conns
             /\ Finished(p,
                  sendToHost(sendMessage(handler[p].out, socks, ws,
                                         "player_joined_success", ""),
                             conns, socks, sid, "player_joined"))

\* mutant: start_game without the isHost test
StartGame_AnyConnection(p, ws, sid, hostId) ==
  Handle(p, ws, "start_game", "startGame", <<>>,
         Call("start", sid, hostId, "", "", <<>>, 0, "", 0))

\* start_game up to `await gameService.startGame(sessionId, playerId)`
StartGame(p, ws, sid, hostId) ==
  IF ~sockets[ws].isHost THEN Unauthorized(p, ws, "start_game")
  ELSE Handle(p, ws, "start_game", "startGame", <<>>,
              Call("start", sid, hostId, "", "", <<>>, 0, "", 0))

CallStartGame(p) ==
  /\ Pending(p, "startGame")
  /\ StartGetSession(p, proc[p].sid, proc[p].hostId)

\* start_game between its two awaits
GameStarted(p) ==
  /\ Resumed(p, "startGame")
  /\ IF proc[p].ret = <<"false">>
     THEN /\ Finished(p, sendMessage(handler[p].out, sockets, handler[p].conn,
                                     "error", "GAME_START_ERROR"))
          /\ UNCHANGED <<connections, sockets>>
     ELSE Awaits(p, "nextQuestion")

\* next_question up to `await gameService.nextQuestion(sessionId, playerId)`
NextQuestion(p, ws, sid, hostId) ==
  IF ~sockets[ws].isHost THEN Unauthorized(p, ws, "next_question")
  ELSE Handle(p, ws, "next_question", "nextQuestion", <<>>,
              Call("next", sid, hostId, "", "", <<>>, 0, "", 0))

CallNextQuestion(p) ==
  /\ Pending(p, "nextQuestion")
  /\ NextGetSession(p, proc[p].sid, proc[p].hostId)

\* start_game and next_question after `await gameService.nextQuestion`
QuestionLoaded(p) ==
  /\ Resumed(p, "nextQuestion")
  /\ IF proc[p].ret # <<"null">>
     THEN /\ Finished(p, broadcastToSession(handler[p].out, connections,
                           sockets, proc[p].sid,
                           IF handler[p].type = "start_game"
                           THEN "game_started" ELSE "question_started", 0))
          /\ UNCHANGED <<connections, sockets>>
     ELSE IF handler[p].type = "start_game"
     THEN /\ Finished(p, sendMessage(handler[p].out, sockets, handler[p].conn,
                                     "error", "GAME_START_ERROR"))
          /\ UNCHANGED <<connections, sockets>>
     ELSE Awaits(p, "getLeaderboard")

\* `await gameService.getLeaderboard(sessionId)`: one read of the players;
\* the handler's `currentQuestion` (reveal_answer) outlives the await
CallGetLeaderboard(p) ==
  /\ Pending(p, "getLeaderboard")
  /\ proc' = [proc EXCEPT ![p] =
       [Call("leaderboard", proc[p].sid, "", "", "", <<>>, 0, proc[p].qid, 0)
          EXCEPT !.pc = "done",
                 !.ret = <<"leaderboard",
                           Leaderboard(getSessionPlayers(proc[p].sid))>>]]
  /\ UNCHANGED <<store, now>>
  /\ UNCHANGED net

\* next_question, finish_game and reveal_answer after
\* `await gameService.getLeaderboard(sessionId)`
LeaderboardLoaded(p) ==
  /\ Resumed(p, "getLeaderboard")
  /\ Finished(p, broadcastToSession(handler[p].out, connections, sockets,
                   proc[p].sid,
                   IF handler[p].type = "reveal_answer"
                   THEN "answer_revealed" ELSE "game_ended", 0))
  /\ UNCHANGED <<connections, sockets>>

\* submit_answer up to `await gameService.submitAnswer(..)`
SubmitAnswer(p, ws, sid, pid, qid, choice) ==
  Handle(p, ws, "submit_answer", "submitAnswer", <<>>,
         Call("submit", sid, "", "", "", <<>>, pid, qid, choice))

CallSubmitAnswer(p) ==
  /\ Pending(p, "submitAnswer")
  /\ SubmitGetSession(p, proc[p].sid, proc[p].pid, proc[p].qid,
                      proc[p].choice)

\* submit_answer after the await
AnswerSubmitted(p) ==
  /\ Resumed(p, "submitAnswer")
  /\ LET ws == handler[p].conn IN
     IF proc[p].ret = <<"null">>
     THEN Finished(p, sendMessage(handler[p].out, sockets, ws, "error",
                                  "SUBMIT_ANSWER_ERROR"))
     ELSE Finished(p, sendToHost(sendMessage(handler[p].out, sockets, ws,
                                             "answer_submitted", ""),
                                 connections, sockets, proc[p].sid,
                                 "player_answered"))
  /\ UNCHANGED <<connections, sockets>>

\* finish_game up to `await gameService.finishGame(sessionId)`
FinishGame(p, ws, sid) ==
  IF ~sockets[ws].isHost THEN Unauthorized(p, ws, "finish_game")
  ELSE Handle(p, ws, "finish_game", "finishGame", <<>>,
              Call("finish", sid, "", "", "", <<>>, 0, "", 0))

CallFinishGame(p) ==
  /\ Pending(p, "finishGame")
  /\ FinishGetSession(p, proc[p].sid)

\* finish_game between its two awaits
GameFinished(p) ==
  /\ Resumed(p, "finishGame")
  /\ IF proc[p].ret = <<"true">>
     THEN Awaits(p, "getLeaderboard")
     ELSE /\ Finished(p, sendMessage(handler[p].out, sockets, handler[p].conn,
                                     "error", "FINISH_GAME_ERROR"))
          /\ UNCHANGED <<connections, sockets>>

\* reveal_answer up to `await gameService.getSession(sessionId)`
RevealAnswer(p, ws, sid) ==
  IF ~sockets[ws].isHost THEN Unauthorized(p, ws, "reveal_answer")
  ELSE Handle(p, ws, "reveal_answer", "getSession", <<>>,
              Call("reveal", sid, "", "", "", <<>>, 0, "", 0))

\* reveal_answer: the session read; the question at
\* max(0, (currentQuestionIndex || 1) - 1) must exist and is kept as
\* `currentQuestion` (its id in qid) for the broadcast
RevealGetSession(p) ==
  /\ Pending(p, "getSession")
  /\ LET sess == getSession(proc[p].sid)
         i == Max(0, (IF sess.currentQuestionIndex = 0 THEN 1
                      ELSE sess.currentQuestionIndex) - 1)
     IN IF ~SessionFound(sess) \/ i >= Len(getQuiz(sess.quizId))
        THEN /\ Finished(p, sendMessage(handler[p].out, sockets,
                                        handler[p].conn, "error",
                                        "REVEAL_ANSWER_ERROR"))
             /\ UNCHANGED <<connections, sockets>>
        ELSE /\ handler' = [handler EXCEPT ![p].pc = "getSessionPlayers"]
             /\ proc' = [proc EXCEPT
                   ![p].qid = getQuiz(sess.quizId)[i + 1].id]
             /\ UNCHANGED <<store, now, connections, sockets>>

\* reveal_answer: the read of the players for the answer statistics
RevealGetPlayers(p) ==
  /\ Pending(p, "getSessionPlayers")
  /\ handler' = [handler EXCEPT ![p].pc = "getLeaderboard"]
  /\ UNCHANGED <<store, now, proc, connections, sockets>>

\* close listener: the connection is closed and its entries are deleted
Close(ws) ==
  /\ sockets[ws].open
  /\ sockets' = [sockets EXCEPT ![ws].open = FALSE]
  /\ connections' = connectionsDelete(connections, ws)
  /\ UNCHANGED <<store, now, proc, handler>>

\* pong listener: `extendedWs.isAlive = true`
Pong(ws) ==
  /\ sockets[ws].open /\ sockets[ws].answering
  /\ sockets' = [sockets EXCEPT ![ws].isAlive = TRUE]
  /\ UNCHANGED <<store, now, proc, handler, connections>>

\* the peer of a connection goes away without a close frame
GoesSilent(ws) ==
  /\ sockets[ws].open /\ sockets[ws].answering
  /\ sockets' = [sockets EXCEPT ![ws].answering = FALSE]
  /\ UNCHANGED <<store, now, proc, handler, connections>>

\* the steps of a handler after the message was taken, handler by handler
HostJoinSteps(p) ==
  \/ CallCreateSession(p) \/ (\E c \in Codes : CreateTryCode(p, c))
  \/ CreateSaveSession(p) \/ CreateSetJoinCode(p) \/ HostJoined(p)

PlayerJoinSteps(p) ==
  \/ CallJoinSession(p) \/ JoinGetSession(p) \/ JoinGetPlayers(p)
  \/ JoinSavePlayer(p) \/ PlayerJoined(p)

StartGameSteps(p) ==
  \/ CallStartGame(p) \/ StartGetPlayers(p) \/ StartUpdate(p)
  \/ GameStarted(p)

NextQuestionSteps(p) ==
  \/ CallNextQuestion(p) \/ NextUpdate(p) \/ QuestionLoaded(p)

\* finishGame and saveGameResult, awaited by nextQuestion or by finish_game
FinishSteps(p) == ~Ready(p) /\ Finish(p, SessionIds)

FinishGameSteps(p) == CallFinishGame(p) \/ GameFinished(p)

LeaderboardSteps(p) == CallGetLeaderboard(p) \/ LeaderboardLoaded(p)

SubmitAnswerSteps(p) ==
  \/ CallSubmitAnswer(p) \/ SubmitGetPlayers(p) \/ SubmitRank(p)
  \/ SubmitUpdate(p) \/ AnswerSubmitted(p)

RevealSteps(p) == RevealGetSession(p) \/ RevealGetPlayers(p)

\* an inbound message: its type tag, message.sessionId (a session id, or
\* the join code of a player_join), message.playerId (the hostId of a host
\* message, the player id of an answer) and the fields of message.content
Message(type, sessionId, hostId, quizId, code, name, pid, qid, choice) ==
  [type |-> type, sessionId |-> sessionId, hostId |-> hostId,
   quizId |-> quizId, code |-> code, name |-> name, pid |-> pid,
   qid |-> qid, choice |-> choice]

\* message listener: `if (messageHandlers[message.type]) await handler(..)
\* else sendMessage(.., UNKNOWN_MESSAGE_TYPE)`, for the handlers that change
\* the game or the registry (the read-only result queries are left out)
Dispatch(p, ws, m) ==
  \/ UnknownType(p, ws, m.type)
  \/ m.type = "host_join" /\ HostJoin(p, ws, m.hostId, m.quizId)
  \/ m.type = "player_join" /\ PlayerJoin(p, ws, m.code, m.name)
  \/ m.type = "start_game" /\ StartGame(p, ws, m.sessionId, m.hostId)
  \/ m.type = "next_question" /\ NextQuestion(p, ws, m.sessionId, m.hostId)
  \/ m.type = "submit_answer"
       /\ SubmitAnswer(p, ws, m.sessionId, m.pid, m.qid, m.choice)
  \/ m.type = "reveal_answer" /\ RevealAnswer(p, ws, m.sessionId)
  \/ m.type = "finish_game" /\ FinishGame(p, ws, m.sessionId)
  \/ m.type = "ping" /\ Ping(p, ws)

\* the server after host h1 opened session 1 on connection 1 and the player
\* Ann joined it on connection 2; further connections are open and have not
\* joined
Registered ==
  /\ connections = << [key |-> ConnectionKey(1, "h1"), ws |-> 1],
                      [key |-> ConnectionKey(1, "1"), ws |-> 2] >>
  /\ sockets = [c \in Conns |->
       IF c = 1 THEN [NewSocket EXCEPT !.sessionId = 1, !.playerId = "h1",
                                       !.isHost = TRUE]
       ELSE IF c = 2 THEN [NewSocket EXCEPT !.sessionId = 1,
                                            !.playerId = "1"]
       ELSE NewSocket]
  /\ handler = [p \in Procs |-> IdleHandler]

\* session 1 with the player Ann
HostedGame(status, index, startedAt) ==
  /\ OneSession(status, index, startedAt)
  /\ players = [i \in PlayerIds |->
       IF i = 1 THEN NewPlayer(1, 1, <<"Ann">>) ELSE NoPlayer]
  /\ now = 1
  /\ proc = [p \in Procs |-> IdleProc]

\* the lobby of session 1 with its host and its player connected
InitGuard == HostedGame("waiting", 0, 0) /\ Registered

\* the host-only messages, sent on any connection with any hostId
NextGuard ==
  \E p \in Procs :
    \/ \E ws \in Conns, h \in Hosts :
         StartGame(p, ws, 1, h) \/ NextQuestion(p, ws, 1, h)
    \/ \E ws \in Conns : RevealAnswer(p, ws, 1) \/ FinishGame(p, ws, 1)
    \/ StartGameSteps(p) \/ NextQuestionSteps(p) \/ FinishSteps(p)
    \/ FinishGameSteps(p) \/ LeaderboardSteps(p) \/ RevealSteps(p)

SpecGuard == InitGuard /\ [][NextGuard]_vars

\* the server after host h1 opened session 1 on connection 1; the other
\* connections are open and have not joined
HostRegistered ==
  /\ connections = << [key |-> ConnectionKey(1, "h1"), ws |-> 1] >>
  /\ sockets = [c \in Conns |->
       IF c = 1 THEN [NewSocket EXCEPT !.sessionId = 1, !.playerId = "h1",
                                       !.isHost = TRUE]
       ELSE NewSocket]
  /\ handler = [p \in Procs |-> IdleHandler]

\* the lobby of session 1 with its host connected and no player yet
InitErrors ==
  /\ OneSession("waiting", 0, 0)
  /\ players = [i \in PlayerIds |-> NoPlayer]
  /\ now = 1
  /\ proc = [p \in Procs |-> IdleProc]
  /\ HostRegistered

\* the answers sent in this game: the right choice for q1 and an unknown
\* question, by player 1
LobbyAnswers == {<<1, "q1", 0>>, <<1, "q9", 0>>}

\* joins with either code and answers on the connections of the players,
\* starts and advances with either hostId on the connection of the host
NextErrors ==
  \E p \in Procs :
    \/ \E ws \in Conns \ {1}, c \in Codes : PlayerJoin(p, ws, c, <<"Ann">>)
    \/ \E h \in Hosts : StartGame(p, 1, 1, h) \/ NextQuestion(p, 1, 1, h)
    \/ \E ws \in Conns \ {1}, a \in LobbyAnswers :
         SubmitAnswer(p, ws, 1, a[1], a[2], a[3])
    \/ PlayerJoinSteps(p) \/ StartGameSteps(p) \/ NextQuestionSteps(p)
    \/ FinishSteps(p) \/ LeaderboardSteps(p) \/ SubmitAnswerSteps(p)

SpecErrors == InitErrors /\ [][NextErrors]_vars

\* one message of every type of the catalog, of the server's own
\* finish_game and ping, and of a type nobody defined; the game messages are
\* ones the service turns down in a lobby (quiz "nosuch", join code BBBBBB,
\* hostId h2)
DispatchMessages ==
  {Message("host_join", 0, "h2", "nosuch", "", <<>>, 0, "", 0),
   Message("player_join", 0, "", "", "BBBBBB", <<"Ann">>, 0, "", 0),
   Message("submit_answer", 1, "", "", "", <<>>, 1, "q1", 0)}
  \cup {Message(t, 1, "h2", "", "", <<>>, 0, "", 0) :
          t \in {"start_game", "next_question", "reveal_answer", "end_game",
                 "finish_game", "ping", "bogus"}}

\* the lobby of session 1 with its host and its player connected
InitDispatch == HostedGame("waiting", 0, 0) /\ Registered

\* any of the messages arrives on any connection, and the handlers run
NextDispatch ==
  \E p \in Procs :
    \/ \E ws \in Conns, m \in DispatchMessages : Dispatch(p, ws, m)
    \/ \E ws \in Conns : Malformed(p, ws)
    \/ CallCreateSession(p) \/ HostJoined(p)
    \/ CallJoinSession(p) \/ PlayerJoined(p)
    \/ CallStartGame(p) \/ GameStarted(p)
    \/ CallNextQuestion(p) \/ QuestionLoaded(p)
    \/ CallSubmitAnswer(p) \/ AnswerSubmitted(p)
    \/ RevealSteps(p) \/ LeaderboardSteps(p)
    \/ FinishGameSteps(p) \/ FinishSteps(p)

SpecDispatch == InitDispatch /\ [][NextDispatch]_vars

\* two sessions: session 1 of host h1 is active with the player Ann and its
\* first question served, host and player being connected; session 2 of
\* host h2 is waiting for players, its host's connection being gone
InitRouting ==
  /\ sessions = [s \in SessionIds |->
       IF s = 1
       THEN [NewSession(1, "demo", "h1", "AAAAAA") EXCEPT
               !.status = "active", !.currentQuestionIndex = 1, !.startedAt = 1]
       ELSE IF s = 2 THEN NewSession(2, "demo", "h2", "BBBBBB")
       ELSE NoSession]
  /\ joinCodes = [c \in Codes |->
       IF c = "AAAAAA" THEN 1 ELSE IF c = "BBBBBB" THEN 2 ELSE 0]
  /\ results = [s \in SessionIds |-> NoResult]
  /\ resultWrites = [s \in SessionIds |-> 0]
  /\ players = [i \in PlayerIds |->
       IF i = 1 THEN NewPlayer(1, 1, <<"Ann">>) ELSE NoPlayer]
  /\ now = 1
  /\ proc = [p \in Procs |-> IdleProc]
  /\ Registered

\* any connection joins session 2, the host advances session 1, player 1
\* answers, and connections close
NextRouting ==
  \/ \E ws \in Conns : Close(ws)
  \/ \E p \in Procs :
       \/ \E ws \in Conns : PlayerJoin(p, ws, "BBBBBB", <<"Ann">>)
       \/ \E ws \in Conns : NextQuestion(p, ws, 1, "h1")
       \/ \E ws \in Conns : SubmitAnswer(p, ws, 1, 1, "q1", 0)
       \/ PlayerJoinSteps(p) \/ NextQuestionSteps(p) \/ FinishSteps(p)
       \/ LeaderboardSteps(p) \/ SubmitAnswerSteps(p)

SpecRouting == InitRouting /\ [][NextRouting]_vars

\* the events of the connections of a lobby: pings of the clients, pong
\* frames, peers that go away with or without a close, and the host asking
\* for the answer of the question; the server has no timer of its own
NextLive ==
  \/ \E ws \in Conns : Close(ws) \/ Pong(ws) \/ GoesSilent(ws)
  \/ \E p \in Procs :
       \/ \E ws \in {c \in Conns : sockets[c].answering} :
            Ping(p, ws) \/ RevealAnswer(p, ws, 1)
       \/ RevealSteps(p) \/ LeaderboardSteps(p)

SpecLive == InitDispatch /\ [][NextLive]_vars

\* what the server does on its own: the code after an await runs once the
\* store has answered
ServerSteps == \E p \in Procs : RevealSteps(p) \/ LeaderboardSteps(p)

LiveServer == SpecLive /\ WF_vars(ServerSteps)

\* two hosts: session 1 of host h1 waits with the player Ann, session 2 of
\* host h2 waits empty; connection 1 is registered as host of session 1 and
\* connection 2 as host of session 2
InitHosts ==
  /\ sessions = [s \in SessionIds |->
       IF s = 1 THEN NewSession(1, "demo", "h1", "AAAAAA")
       ELSE IF s = 2 THEN NewSession(2, "demo", "h2", "BBBBBB")
       ELSE NoSession]
  /\ joinCodes = [c \in Codes |->
       IF c = "AAAAAA" THEN 1 ELSE IF c = "BBBBBB" THEN 2 ELSE 0]
  /\ results = [s \in SessionIds |-> NoResult]
  /\ resultWrites = [s \in SessionIds |-> 0]
  /\ players = [i \in PlayerIds |->
       IF i = 1 THEN NewPlayer(1, 1, <<"Ann">>) ELSE NoPlayer]
  /\ now = 1
  /\ proc = [p \in Procs |-> IdleProc]
  /\ connections = << [key |-> ConnectionKey(1, "h1"), ws |-> 1],
                      [key |-> ConnectionKey(2, "h2"), ws |-> 2] >>
  /\ sockets = [c \in Conns |->
       IF c = 1 THEN [NewSocket EXCEPT !.sessionId = 1, !.playerId = "h1",
                                       !.isHost = TRUE]
       ELSE IF c = 2 THEN [NewSocket EXCEPT !.sessionId = 2,
                                            !.playerId = "h2", !.isHost = TRUE]
       ELSE NewSocket]
  /\ handler = [p \in Procs |-> IdleHandler]

\* either host connection sends the messages that change a session, naming
\* session 1 and either hostId
NextHosts ==
  \E p \in Procs :
    \/ \E ws \in Conns, h \in Hosts :
         StartGame(p, ws, 1, h) \/ NextQuestion(p, ws, 1, h)
    \/ \E ws \in Conns : FinishGame(p, ws, 1)
    \/ StartGameSteps(p) \/ NextQuestionSteps(p) \/ FinishSteps(p)
    \/ FinishGameSteps(p) \/ LeaderboardSteps(p)

SpecHosts == InitHosts /\ [][NextHosts]_vars

(* ------------------------------- claims -------------------------------- *)
StatusRank(status) ==
  CASE status = "none" -> 0
    [] status = "waiting" -> 1
    [] status = "active" -> 2
    [] status = "finished" -> 3

\* C1: the stored status of a session never moves backwards
\* (waiting -> active -> finished), whatever calls overlap.
C1_StatusMonotonic ==
  [][\A s \in SessionIds :
       StatusRank(sessions'[s].status) >= StatusRank(sessions[s].status)]_vars

\* p has returned from op with a result of the given kind
Returned(p, op, kind) ==
  proc[p].op = op /\ proc[p].pc = "done" /\ proc[p].ret[1] = kind

NoRepeatedQuestion(answers) ==
  \A i, j \in 1..Len(answers) :
    answers[i].questionId = answers[j].questionId => i = j

\* C2: no player has two answers for one question, and of the submits of
\* one player for one question at most one is accepted.
C2_OneAnswerPerQuestion ==
  /\ \A i \in PlayerIds :
       players[i] # NoPlayer => NoRepeatedQuestion(players[i].answers)
  /\ \A p, q \in Procs :
       (/\ Returned(p, "submit", "answer") /\ Returned(q, "submit", "answer")
        /\ proc[p].pid = proc[q].pid /\ proc[p].qid = proc[q].qid) => p = q

RECURSIVE SumPoints(_)
SumPoints(answers) ==
  IF answers = <<>> THEN 0 ELSE Head(answers).points + SumPoints(Tail(answers))

\* C3: in every reachable state each player's score is the sum of the points
\* of the player's recorded answers, and is not negative.
C3_ScoreIsSum ==
  \A i \in PlayerIds :
    players[i] # NoPlayer =>
      /\ players[i].score = SumPoints(players[i].answers)
      /\ players[i].score >= 0

\* C3 witness: two submits of one player for one question were both written
\* (they overlapped) and the player holds points.
C3_Witness ==
  \E p, q \in Procs :
    /\ p # q
    /\ Returned(p, "submit", "answer") /\ Returned(q, "submit", "answer")
    /\ proc[p].pid = proc[q].pid /\ proc[p].qid = proc[q].qid
    /\ players[proc[p].pid].score > 0

\* C4: a player record is only ever added to a session that is `waiting`.
C4_JoinOnlyWhileWaiting ==
  [][\A i \in PlayerIds :
       (players[i] = NoPlayer /\ players'[i] # NoPlayer) =>
         getSession(players'[i].sessionId).status = "waiting"]_vars

\* the createSession call that stored session s has not returned yet
CreateInFlight(s) ==
  \E p \in Procs : proc[p].op = "create" /\ proc[p].pc = "c_setcode"
                   /\ proc[p].sid = s

Open(s) == SessionFound(sessions[s]) /\ sessions[s].status # "finished"

\* C5: no two sessions that are not finished have the same join code, and the
\* join code of a created session that is not finished resolves to it.
C5_JoinCodesUnique ==
  /\ \A s, t \in SessionIds :
       (Open(s) /\ Open(t) /\ sessions[s].joinCode = sessions[t].joinCode)
         => s = t
  /\ \A s \in SessionIds :
       (Open(s) /\ ~CreateInFlight(s))
         => getSessionByJoinCode(sessions[s].joinCode) = s

\* C6: at most one GameResult is ever written for a session.
C6_OneResultPerSession ==
  \A s \in SessionIds : resultWrites[s] <= 1

\* p makes its first step of a call of op in this step
Begins(p, op) == Ready(p) /\ proc'[p] # proc[p] /\ proc'[p].op = op

\* the call p has returned v in this step and the sessions are as before
FailsWith(p, v) ==
  /\ proc'[p].pc = "done" /\ proc'[p].ret = v
  /\ sessions' = sessions

\* C7: start sets the status to `active` only for an existing session read as
\* `waiting`, by its host, with a roster that is not empty; in every other
\* case it returns false and leaves the session as it is.
C7_StartGuard ==
  [][\A p \in Procs :
       /\ Begins(p, "start") =>
            LET sess == getSession(proc'[p].sid) IN
            IF \/ ~SessionFound(sess)
               \/ sess.hostId # proc'[p].hostId
               \/ sess.status # "waiting"
            THEN FailsWith(p, <<"false">>)
            ELSE proc'[p].pc = "s_players" /\ store' = store
       /\ proc[p].pc = "s_players" /\ proc'[p] # proc[p] =>
            IF Len(getSessionPlayers(proc[p].sid)) = 0
            THEN FailsWith(p, <<"false">>)
            ELSE proc'[p].pc = "s_update" /\ store' = store
       /\ proc[p].pc = "s_update" /\ proc'[p] # proc[p] =>
            LET s == proc[p].sid IN
            /\ SessionFound(sessions[s])
            /\ sessions[s].hostId = proc[p].hostId
            /\ Len(getSessionPlayers(s)) > 0
            /\ sessions' = [sessions EXCEPT ![s] =
                 [@ EXCEPT !.status = "active", !.startedAt = now]]
            /\ proc'[p].ret = <<"true">>
       /\ (\E s \in SessionIds :
              /\ sessions[s].status # "active" /\ sessions'[s].status = "active")
            => \E q \in Procs : proc[q].op = "start" /\ proc[q].pc = "s_update"
                                /\ proc'[q].pc = "done"]_vars

\* C7 witness: a start by another host has been refused and a start by the
\* host has set the session active.
C7_Witness ==
  \E p, q \in Procs :
    /\ Returned(p, "start", "false") /\ proc[p].sid = 1
    /\ proc[p].hostId # sessions[1].hostId
    /\ Returned(q, "start", "true") /\ proc[q].sid = 1
    /\ sessions[1].status = "active"

\* C8: an advance on a session that is not `active`, or by another host than
\* the session's, returns no question and leaves the session as it is.
C8_AdvanceGuard ==
  [][\A p \in Procs :
       Begins(p, "next") =>
         LET sess == getSession(proc'[p].sid) IN
         (\/ ~SessionFound(sess)
          \/ sess.status # "active"
          \/ sess.hostId # proc'[p].hostId)
           => FailsWith(p, <<"null">>) /\ store' = store]_vars

\* C8 witness: an advance by another host and an advance by the host have
\* both returned nothing, the second one before the session was started (no
\* question has been served since).
C8_Witness ==
  \E p, q \in Procs :
    /\ Returned(p, "next", "null") /\ proc[p].sid = 1
    /\ proc[p].hostId # sessions[1].hostId
    /\ Returned(q, "next", "null") /\ proc[q].sid = 1
    /\ proc[q].hostId = sessions[1].hostId
    /\ sessions[1].status = "active"
    /\ sessions[1].currentQuestionIndex = 0

\* C9: the stored currentQuestionIndex of a session never decreases.
C9_IndexNonDecreasing ==
  [][\A s \in SessionIds :
       SessionFound(sessions[s]) =>
         sessions'[s].currentQuestionIndex >= sessions[s].currentQuestionIndex]_vars

\* C10: in every reachable state 0 <= currentQuestionIndex <= the number of
\* questions of the session's quiz.
C10_IndexInRange ==
  \A s \in SessionIds :
    SessionFound(sessions[s]) =>
      /\ sessions[s].currentQuestionIndex >= 0
      /\ sessions[s].currentQuestionIndex <= Len(getQuiz(sessions[s].quizId))

\* C10 witness: every question has been served and a further advance has
\* found the quiz over.
C10_Witness ==
  /\ sessions[1].currentQuestionIndex = Len(getQuiz(sessions[1].quizId))
  /\ \E p \in Procs : proc[p].op = "next" /\ proc[p].pc = "f_update"

\* C11: an advance by the host on an active session, not overlapping another
\* advance, with the stored index i below the number of questions, returns
\* questions[i] and stores the index i + 1.
C11_AdvanceInOrder ==
  [][\A p \in Procs :
       /\ Begins(p, "next") =>
            LET sess == getSession(proc'[p].sid) IN
            (/\ SessionFound(sess) /\ sess.status = "active"
             /\ sess.hostId = proc'[p].hostId
             /\ sess.currentQuestionIndex < Len(getQuiz(sess.quizId)))
              => proc'[p].pc = "n_update" /\ store' = store
       /\ proc[p].pc = "n_update" /\ proc'[p] # proc[p] =>
            LET s == proc[p].sid
                i == sessions[s].currentQuestionIndex
            IN /\ proc'[p].pc = "done"
               /\ proc'[p].ret = <<"question", getQuiz(sessions[s].quizId)[i + 1].id>>
               /\ sessions' = [sessions EXCEPT ![s].currentQuestionIndex = i + 1]
               /\ UNCHANGED <<players, joinCodes, results>>]_vars

\* C11 witness: two successive advances have returned the first and the
\* second question and the index stands behind the second.
C11_Witness ==
  \E p, q \in Procs :
    /\ proc[p].op = "next" /\ proc[p].pc = "done"
    /\ proc[p].ret = <<"question", "q1">>
    /\ proc[q].op = "next" /\ proc[q].pc = "done"
    /\ proc[q].ret = <<"question", "q2">>
    /\ sessions[1].currentQuestionIndex = 2

\* C12: on an active session whose N questions have all been served, the next
\* advance by the host returns no question, sets the status to `finished` and
\* stores the game result; so under a host that keeps advancing an active
\* session eventually is finished with its result stored.
C12_AdvanceFinishes ==
  /\ [][\A p \in Procs :
         /\ Begins(p, "next") =>
              LET sess == getSession(proc'[p].sid) IN
              (/\ SessionFound(sess) /\ sess.status = "active"
               /\ sess.hostId = proc'[p].hostId
               /\ sess.currentQuestionIndex = Len(getQuiz(sess.quizId)))
                => proc'[p].pc = "f_get" /\ store' = store
         /\ (proc[p].op = "next" /\ proc[p].pc = "f_get" /\ proc'[p] # proc[p])
              => proc'[p].pc = "f_update" /\ store' = store
         /\ (proc[p].op = "next" /\ proc[p].pc = "f_update" /\ proc'[p] # proc[p])
              => /\ sessions'[proc[p].sid].status = "finished"
                 /\ proc'[p].pc = "r_session"
         /\ (proc[p].op = "next" /\ proc[p].pc \in {"r_session", "r_players", "r_board"}
               /\ proc'[p] # proc[p])
              => proc'[p].pc \in {"r_players", "r_board", "r_save"}
         /\ (proc[p].op = "next" /\ proc[p].pc = "r_save" /\ proc'[p] # proc[p])
              => /\ results'[proc[p].sid] # NoResult
                 /\ results'[proc[p].sid].sessionId = proc[p].sid
                 /\ proc'[p].pc = "done" /\ proc'[p].ret = <<"null">>]_vars
  /\ (sessions[1].status = "active")
       ~> (sessions[1].status = "finished" /\ results[1] # NoResult)

\* C12 witness: the advance after the last question has returned nothing,
\* the session is finished and its result is stored.
C12_Witness ==
  \E p \in Procs :
    /\ Returned(p, "next", "null") /\ proc[p].sid = 1 /\ proc[p].hostId = "h1"
    /\ sessions[1].currentQuestionIndex = Len(getQuiz(sessions[1].quizId))
    /\ sessions[1].status = "finished"
    /\ results[1] # NoResult /\ resultWrites[1] = 1

\* C13: a submit fails, returns no result and leaves every player as it is
\* when the session is not `active`, when the question is not one of the
\* session's quiz, when the player is not one of the session, or when the
\* selected choice is below 0 or not below the question's number of choices.
C13_SubmitGuard ==
  [][\A p \in Procs :
       /\ Begins(p, "submit") =>
            LET sess == getSession(proc'[p].sid) IN
            (\/ ~SessionFound(sess)
             \/ sess.status # "active"
             \/ \A k \in 1..Len(getQuiz(sess.quizId)) :
                  getQuiz(sess.quizId)[k].id # proc'[p].qid)
              => FailsWith(p, <<"null">>) /\ store' = store
       /\ (proc[p].pc = "a_players" /\ proc'[p] # proc[p]) =>
            LET quiz == getQuiz(sessions[proc[p].sid].quizId)
                question == CHOOSE q \in {quiz[k] : k \in 1..Len(quiz)} :
                              q.id = proc[p].qid
            IN (\/ proc[p].pid \notin PlayerIds
                \/ players[proc[p].pid].sessionId # proc[p].sid
                \/ proc[p].choice < 0
                \/ proc[p].choice >= question.nChoices)
                 => FailsWith(p, <<"null">>) /\ store' = store]_vars

\* C13 witness: a submit with a choice past the last one and a submit to a
\* session that is not active have both failed, and the players are as they
\* were.
C13_Witness ==
  \E p, q \in Procs :
    /\ Returned(p, "submit", "null") /\ proc[p].sid = 1 /\ proc[p].pid = 1
    /\ proc[p].qid = "q1" /\ proc[p].choice = 4
    /\ Returned(q, "submit", "null") /\ proc[q].sid = 2 /\ proc[q].pid = 2
    /\ sessions[2].status = "waiting"
    /\ \A i \in {1, 2} : players[i].score = 0 /\ players[i].answers = <<>>

\* the base points of the question of id qid
BasePoints(qid) ==
  (CHOOSE q \in {QuizQuestions[k] : k \in 1..Len(QuizQuestions)} : q.id = qid).points

\* n is Math.round(a / b) for naturals a and b > 0: a/b lies in [n - 1/2, n + 1/2)
IsRound(n, a, b) == (2 * n - 1) * b <= 2 * a /\ 2 * a < (2 * n + 1) * b

\* C14: a correct answer ranked r of t correct answers on a question of base
\* points b is awarded b when t = 1 and otherwise
\* max(round(b * (1 - ((r - 1) / t) * 0.5)), round(0.3 * b)); an incorrect
\* answer is awarded 0.  With b = 100: 100 for t = 1; 100, 88 and 63 for
\* r = 1, 2 and 4 of t = 4; and never less than 30.
C14_PointsFormula ==
  \A p \in Procs :
    Returned(p, "submit", "answer") =>
      LET isCorrect == proc[p].ret[2]
          points == proc[p].ret[3]
          r == proc[p].ret[4]
          t == proc[p].ret[5]
          b == BasePoints(proc[p].qid)
      IN /\ ~isCorrect => points = 0
         /\ (isCorrect /\ t = 1) => points = b
         /\ (isCorrect /\ t > 1) =>
              \E n, m \in 0..b :
                /\ IsRound(n, b * (2 * t - r + 1), 2 * t)
                /\ IsRound(m, 3 * b, 10)
                /\ points = IF n > m THEN n ELSE m
         /\ (isCorrect /\ b = 100) =>
              /\ points >= 30
              /\ t = 1 => points = 100
              /\ (t = 4 /\ r = 1) => points = 100
              /\ (t = 4 /\ r = 2) => points = 88
              /\ (t = 4 /\ r = 4) => points = 63

\* C14 witness: a correct answer ranked 2nd of 4 and a correct answer ranked
\* 4th of 4 on the 100-point question have been scored.
C14_Witness ==
  \E p, q \in Procs :
    /\ Returned(p, "submit", "answer") /\ Returned(q, "submit", "answer")
    /\ proc[p].qid = "q1" /\ proc[p].ret[2] /\ proc[p].ret[4] = 2 /\ proc[p].ret[5] = 4
    /\ proc[q].qid = "q1" /\ proc[q].ret[2] /\ proc[q].ret[4] = 4 /\ proc[q].ret[5] = 4

\* every correct answer among answers holds at least half, and at least 30%,
\* of the base points of its question
HalfOrMore(answers) ==
  \A k \in 1..Len(answers) :
    answers[k].isCorrect =>
      /\ 2 * answers[k].points >= BasePoints(answers[k].questionId)
      /\ 10 * answers[k].points >= 3 * BasePoints(answers[k].questionId)

\* C15: a correct answer that is scored while no correct answer for its
\* question is recorded (so the first one recorded) is awarded the full base
\* points, and every correct answer recorded holds at least 50% of the base
\* points, hence at least the 30% floor.
C15_FirstFullOthersHalf ==
  /\ [][\A p \in Procs :
         (/\ proc[p].pc = "a_rank" /\ proc'[p] # proc[p]
          /\ \A i \in PlayerIds :
               players[i] # NoPlayer =>
                 \A k \in 1..Len(players[i].answers) :
                   ~(/\ players[i].answers[k].questionId = proc[p].qid
                     /\ players[i].answers[k].isCorrect))
           => /\ proc'[p].points = BasePoints(proc[p].qid)
              /\ proc'[p].player.answers[Len(proc'[p].player.answers)].points
                   = BasePoints(proc[p].qid)]_vars
  /\ [](\A i \in PlayerIds : players[i] # NoPlayer => HalfOrMore(players[i].answers))

\* C15 witness: player 1 holds the first correct answer for q1 with the full
\* points and player 2 a later correct answer for q1 with less.
C15_Witness ==
  /\ \E k \in 1..Len(players[1].answers) :
       /\ players[1].answers[k].questionId = "q1"
       /\ players[1].answers[k].isCorrect
       /\ players[1].answers[k].points = BasePoints("q1")
  /\ \E k \in 1..Len(players[2].answers) :
       /\ players[2].answers[k].questionId = "q1"
       /\ players[2].answers[k].isCorrect
       /\ players[2].answers[k].points < BasePoints("q1")

\* C16: in every reachable state no two players of one session have the same
\* display name.
C16_NamesUnique ==
  \A i, j \in PlayerIds :
    (/\ players[i] # NoPlayer /\ players[j] # NoPlayer
     /\ players[i].sessionId = players[j].sessionId
     /\ players[i].name = players[j].name) => i = j

\* C17: a join gives the new player the requested name when no player of the
\* roster has it, and otherwise the requested name followed by the smallest
\* k >= 2 whose suffixed name no player has; the player starts with score 0
\* and no answers.
C17_EffectiveName ==
  \A p \in Procs :
    Returned(p, "join", "player") =>
      LET taken == {proc[p].rplayers[i].name : i \in 1..Len(proc[p].rplayers)}
          name == proc[p].name
          player == proc[p].player
      IN /\ name \notin taken => player.name = name
         /\ name \in taken =>
              \E k \in 2..(MaxRoster + 2) :
                /\ player.name = name \o <<ToString(k)>>
                /\ player.name \notin taken
                /\ \A j \in 2..(k - 1) : (name \o <<ToString(j)>>) \in taken
         /\ player.score = 0 /\ player.answers = <<>>

\* C17 witness: Ann joins a session that has an Ann and an Ann2 and is
\* named Ann3.
C17_Witness ==
  \E p \in Procs :
    /\ Returned(p, "join", "player") /\ proc[p].name = <<"Ann">>
    /\ \E i, j \in 1..Len(proc[p].rplayers) :
         /\ proc[p].rplayers[i].name = <<"Ann">>
         /\ proc[p].rplayers[j].name = <<"Ann", "2">>
    /\ proc[p].player.name = <<"Ann", "3">>

\* C18: create draws and looks up a join code at most 10 times; an unmapped
\* draw ends the drawing and is the code the session is stored and mapped
\* with; a 10th mapped draw makes create fail; and a create stores nothing
\* while it draws, so a failed one has stored neither session nor mapping.
C18_TenDraws ==
  [][\A p \in Procs :
       /\ (proc[p].pc = "c_code" /\ proc'[p] # proc[p]) =>
            /\ proc[p].attempts < 10
            /\ store' = store
            /\ IF getSessionByJoinCode(proc'[p].code) = 0
               THEN proc'[p].pc = "c_save"
               ELSE IF proc[p].attempts + 1 = 10
               THEN proc'[p].pc = "done" /\ proc'[p].ret = <<"null">>
               ELSE /\ proc'[p].pc = "c_code"
                    /\ proc'[p].attempts = proc[p].attempts + 1
       /\ (proc[p].pc = "c_save" /\ proc'[p] # proc[p]) =>
            /\ proc'[p].code = proc[p].code /\ proc'[p].sid = proc[p].sid
            /\ proc'[p].pc = "c_setcode"
            /\ sessions'[proc[p].sid].joinCode = proc[p].code
            /\ joinCodes' = joinCodes
       /\ (proc[p].pc = "c_setcode" /\ proc'[p] # proc[p]) =>
            /\ joinCodes'[proc[p].code] = proc[p].sid
            /\ proc'[p].ret = <<"session">>]_vars

\* C18 witness: with every code mapped, a create for the demo quiz is at its
\* 10th draw, and another one has failed.
C18_Witness ==
  /\ \A c \in Codes : getSessionByJoinCode(c) # 0
  /\ \E p, q \in Procs :
       /\ proc[p].op = "create" /\ proc[p].pc = "c_code" /\ proc[p].attempts = 9
       /\ Returned(q, "create", "null") /\ proc[q].quizId = "demo"

\* C19: a create for a quiz id the store does not have fails and stores
\* nothing; a successful create has stored a session with status `waiting`,
\* currentQuestionIndex 0, the given hostId and quiz, and no players.
C19_CreateResult ==
  /\ [][\A p \in Procs :
         /\ Begins(p, "create") =>
              /\ store' = store
              /\ IF proc'[p].quizId # "demo"
                 THEN proc'[p].pc = "done" /\ proc'[p].ret = <<"null">>
                 ELSE proc'[p].pc = "c_code"
         /\ (proc[p].pc = "c_save" /\ proc'[p] # proc[p]) =>
              LET sess == sessions'[proc[p].sid] IN
              /\ ~SessionFound(sessions[proc[p].sid])
              /\ sess.status = "waiting" /\ sess.currentQuestionIndex = 0
              /\ sess.hostId = proc[p].hostId /\ sess.quizId = proc[p].quizId
              /\ sess.id = proc[p].sid
              /\ \A s \in SessionIds \ {proc[p].sid} : sessions'[s] = sessions[s]
              /\ players' = players]_vars
  /\ [](\A p \in Procs :
          Returned(p, "create", "session") =>
            LET sess == getSession(proc[p].sid) IN
            /\ SessionFound(sess)
            /\ sess.status = "waiting" /\ sess.currentQuestionIndex = 0
            /\ sess.hostId = proc[p].hostId /\ sess.quizId = proc[p].quizId
            /\ sess.joinCode = proc[p].code
            /\ \A i \in PlayerIds : players[i].sessionId # proc[p].sid)

\* C19 witness: a create for an unknown quiz has failed and a create of host
\* h2 for the demo quiz has returned its session.
C19_Witness ==
  \E p, q \in Procs :
    /\ Returned(p, "create", "null") /\ proc[p].quizId = "nosuch"
    /\ Returned(q, "create", "session") /\ proc[q].hostId = "h2"
    /\ sessions[proc[q].sid].hostId = "h2"
    /\ sessions[proc[q].sid].status = "waiting"

\* the answers hold the record of the answer that the call p has returned
Recorded(p, answers) ==
  \E k \in 1..Len(answers) :
    /\ answers[k].questionId = proc[p].qid
    /\ answers[k].selectedChoice = proc[p].choice
    /\ answers[k].isCorrect = proc[p].ret[2]
    /\ answers[k].points = proc[p].ret[3]

\* C20: an answer that submit has accepted stays in the player's answers with
\* its choice, correctness and points, whatever submits for other questions
\* do (submits of the same player for the same question are left aside here).
C20_AcceptedAnswerStays ==
  \A p \in Procs :
    (/\ Returned(p, "submit", "answer")
     /\ \A q \in Procs \ {p} :
          ~(proc[q].op = "submit" /\ proc[q].pid = proc[p].pid
            /\ proc[q].qid = proc[p].qid))
      => Recorded(p, players[proc[p].pid].answers)

\* the place of the player of id i on the list plist
PlaceOf(plist, i) == CHOOSE k \in 1..Len(plist) : plist[k].id = i

\* C21: the leaderboard has exactly one entry per player, with the player's
\* name and score; it is ordered by score descending, players of equal score
\* in the order the store returned them; and the rank of an entry is its
\* position, 1, 2, ..., n.
C21_Leaderboard ==
  \A p \in Procs :
    Returned(p, "leaderboard", "leaderboard") =>
      LET roster == proc[p].rplayers
          board == proc[p].ret[2]
      IN /\ Len(board) = Len(roster)
         /\ \A i \in 1..Len(roster) :
              \E k \in 1..Len(board) :
                /\ board[k].playerId = roster[i].id
                /\ board[k].playerName = roster[i].name
                /\ board[k].score = roster[i].score
                /\ \A l \in 1..Len(board) :
                     board[l].playerId = roster[i].id => l = k
         /\ \A k \in 1..Len(board) : board[k].rank = k
         /\ \A k, l \in 1..Len(board) :
              k < l =>
                /\ board[k].score >= board[l].score
                /\ board[k].score = board[l].score =>
                     PlaceOf(roster, board[k].playerId)
                       < PlaceOf(roster, board[l].playerId)

\* C21 witness: three players, the first and the last with the same score
\* and the middle one with more, are ranked middle, first, last.
C21_Witness ==
  \E p \in Procs :
    /\ Returned(p, "leaderboard", "leaderboard")
    /\ Len(proc[p].rplayers) = 3
    /\ proc[p].rplayers[1].score = 75 /\ proc[p].rplayers[2].score = 100
    /\ proc[p].rplayers[3].score = 75
    /\ proc[p].ret[2][1].playerId = 2 /\ proc[p].ret[2][2].playerId = 1
    /\ proc[p].ret[2][3].playerId = 3 /\ proc[p].ret[2][3].rank = 3

\* the sum of the scores of the players whose ids are in S
RECURSIVE TotalScore(_)
TotalScore(S) ==
  IF S = {} THEN 0
  ELSE LET i == CHOOSE j \in S : TRUE IN players[i].score + TotalScore(S \ {i})

\* the recorded answers for question qid: (player, place) pairs
AnswersFor(S, qid) ==
  {ik \in S \X (1..NumQuestions) :
     /\ ik[2] <= Len(players[ik[1]].answers)
     /\ players[ik[1]].answers[ik[2]].questionId = qid}

\* C22: a stored GameResult has totalParticipants = the number of players,
\* averageScore = the rounded mean of their scores (0 without players) and,
\* for every question, correctCount = the recorded correct answers and
\* totalAnswers = the recorded answers for it, with
\* correctCount <= totalAnswers <= totalParticipants; players who scored 100
\* and 75 on the first question give the average 88 and {2, 2} for it.
C22_GameResult ==
  \A s \in SessionIds :
    results[s] # NoResult =>
      LET S == {i \in PlayerIds : players[i].sessionId = s}
          n == Cardinality(S)
          res == results[s]
      IN /\ res.totalParticipants = n
         /\ n = 0 => res.averageScore = 0
         /\ n > 0 => IsRound(res.averageScore, TotalScore(S), n)
         /\ Len(res.questionStats) = Len(QuizQuestions)
         /\ \A k \in 1..Len(QuizQuestions) :
              LET st == res.questionStats[k]
                  A == AnswersFor(S, QuizQuestions[k].id)
              IN /\ st.questionId = QuizQuestions[k].id
                 /\ st.totalAnswers = Cardinality(A)
                 /\ st.correctCount =
                      Cardinality({ik \in A : players[ik[1]].answers[ik[2]].isCorrect})
                 /\ st.correctCount <= st.totalAnswers
                 /\ st.totalAnswers <= res.totalParticipants
         /\ (n = 2 /\ {players[i].score : i \in S} = {100, 75}) =>
              /\ res.averageScore = 88
              /\ res.questionStats[1].correctCount = 2
              /\ res.questionStats[1].totalAnswers = 2

\* C22 witness: the result of a game of two players who scored 100 and 75 on
\* the first question is stored.
C22_Witness ==
  /\ results[1] # NoResult
  /\ players[1].sessionId = 1 /\ players[1].score = 100
  /\ players[2].sessionId = 1 /\ players[2].score = 75
  /\ results[1].totalParticipants = 2

\* the message types only a host may send
HostOnly == {"start_game", "next_question", "reveal_answer", "finish_game"}

\* handler p takes a message in this step
Takes(p) == Free(p) /\ handler'[p] # handler[p]

\* C23: a host-only message taken from a connection that is not flagged as
\* host is answered by exactly one UNAUTHORIZED error to that connection,
\* nothing else is sent, the handler ends and neither the store nor the
\* registry changes; and no step of a startGame or nextQuestion call whose
\* hostId is not the session's hostId changes the store.
C23_Unauthorized ==
  [][\A p \in Procs :
       /\ (Takes(p) /\ handler'[p].type \in HostOnly
              /\ ~sockets[handler'[p].conn].isHost)
            => /\ handler'[p].pc = "done"
               /\ handler'[p].out =
                    <<[to |-> handler'[p].conn, type |-> "error",
                       code |-> "UNAUTHORIZED"]>>
               /\ UNCHANGED <<store, connections, sockets>>
       /\ (proc'[p] # proc[p] /\ proc'[p].op \in {"start", "next"}
              /\ proc'[p].sid \in SessionIds
              /\ SessionFound(sessions[proc'[p].sid])
              /\ sessions[proc'[p].sid].hostId # proc'[p].hostId)
            => UNCHANGED store]_vars

\* C23 witness: start_game of the player's connection was answered with
\* UNAUTHORIZED, and a next_question with the hostId h2 has returned, in
\* the lobby of session 1.
C23_Witness ==
  /\ sessions[1].status = "waiting"
  /\ \E p \in Procs :
       /\ handler[p].type = "start_game" /\ handler[p].conn = 2
       /\ handler[p].pc = "done" /\ Len(handler[p].out) = 1
  /\ \E p \in Procs :
       /\ handler[p].type = "next_question" /\ handler[p].conn = 1
       /\ proc[p].op = "leaderboard" /\ proc[p].hostId = ""
       /\ handler[p].pc = "done"

\* handler p resumes after an await whose call has failed: a join or a
\* submit returned null, a start returned false, or an advance returned
\* null for a session that is still waiting or has another host
ResumesFailed(p) ==
  /\ handler'[p] # handler[p] /\ proc[p].pc = "done"
  /\ \/ handler[p].pc = "joinSession" /\ proc[p].ret = <<"null">>
     \/ handler[p].pc = "startGame" /\ proc[p].ret = <<"false">>
     \/ handler[p].pc = "submitAnswer" /\ proc[p].ret = <<"null">>
     \/ /\ handler[p].pc = "nextQuestion" /\ handler[p].type = "next_question"
        /\ proc[p].ret = <<"null">>
        /\ \/ sessions[proc[p].sid].status = "waiting"
           \/ sessions[proc[p].sid].hostId # proc[p].hostId

\* the handler ends having sent one error to its own connection and
\* nothing else
OneError(h) ==
  /\ h.pc = "done"
  /\ Len(h.out) = 1
  /\ h.out[1].to = h.conn /\ h.out[1].type = "error"

\* C24: when a join, start, submit or advance fails, the handler sends one
\* error to the connection the message came from and nothing to any other
\* connection, and the connection stays open and registered as before.
C24_OneErrorToSender ==
  [][\A p \in Procs :
       ResumesFailed(p) =>
         /\ OneError(handler'[p])
         /\ UNCHANGED <<connections, sockets>>]_vars

\* the same for every failing operation but the advance
C24_OtherFailures ==
  [][\A p \in Procs :
       (ResumesFailed(p) /\ handler[p].type # "next_question") =>
         /\ OneError(handler'[p])
         /\ UNCHANGED <<connections, sockets>>]_vars

C26_CatalogDispatched ==
  \A p \in Procs :
    handler[p].type \in CatalogTypes =>
      \A i \in 1..Len(handler[p].out) :
        handler[p].out[i].code # "UNKNOWN_MESSAGE_TYPE"

\* the connections handler p sends to in this step, by message type
SentTo(p, types) ==
  {handler'[p].out[i].to :
     i \in {j \in Len(handler[p].out) + 1 .. Len(handler'[p].out) :
              handler'[p].out[j].type \in types}}

\* connection c is in the registry and its registration is for session s
RegisteredUnder(conns, socks, c, s) ==
  /\ \E i \in 1..Len(conns) : conns[i].ws = c
  /\ socks[c].sessionId = s

\* handler p ends with a broadcast / with a send to the host in this step
Broadcasts(p) ==
  /\ handler'[p].pc = "done"
  /\ \/ handler[p].pc = "nextQuestion" /\ proc[p].pc = "done"
          /\ proc[p].ret # <<"null">>
     \/ handler[p].pc = "getLeaderboard" /\ proc[p].pc = "done"
SendsToHost(p) ==
  /\ handler'[p].pc = "done"
  /\ handler[p].pc \in {"joinSession", "submitAnswer"}
  /\ proc[p].pc = "done" /\ proc[p].ret # <<"null">>

BroadcastTypes ==
  {"game_started", "question_started", "answer_revealed", "game_ended"}
HostTypes == {"player_joined", "player_answered"}

\* C27: a broadcast to session S goes to exactly the open connections
\* registered under S (no sender is ever excluded by a handler), and so to
\* no connection registered under another session; a send to the host of S
\* goes to exactly the open connections registered under S and flagged as
\* host, and so never to a player connection; and nothing of either kind is
\* sent in any other step.
C27_Routing ==
  [][\A p \in Procs :
       /\ SentTo(p, BroadcastTypes) =
            IF Broadcasts(p)
            THEN {c \in Conns : /\ sockets[c].open
                                /\ RegisteredUnder(connections, sockets, c,
                                                   proc[p].sid)}
            ELSE {}
       /\ SentTo(p, HostTypes) =
            IF SendsToHost(p)
            THEN {c \in Conns : /\ sockets'[c].open
                                /\ RegisteredUnder(connections', sockets', c,
                                                   proc[p].sid)
                                /\ sockets'[c].isHost}
            ELSE {}]_vars

\* C27 witness: connection 2 has moved from session 1 to session 2, and a
\* question of session 1 has been broadcast to the host's connection alone.
C27_Witness ==
  /\ sockets[2].open /\ sockets[2].sessionId = 2
  /\ \E p \in Procs :
       /\ handler[p].type = "next_question" /\ handler[p].pc = "done"
       /\ handler[p].out = <<[to |-> 1, type |-> "question_started",
                              code |-> ""]>>

\* C28: the registry holds no entry that points to a closed connection,
\* also when a join of that connection was awaiting the store at the close.
C28_NoClosedEntries ==
  \A i \in 1..Len(connections) : sockets[connections[i].ws].open

\* handler p has taken a message and has not yet run to completion
InFlight(p) == handler[p].pc \notin {"idle", "done"}

\* C29: the handlers of one connection run one at a time: no two handlers
\* that are in flight belong to the same connection.
C29_OneHandlerPerConnection ==
  \A p, q \in Procs :
    (p # q /\ InFlight(p) /\ InFlight(q)) => handler[p].conn # handler[q].conn

\* C30: a connection whose peer no longer answers is eventually closed and
\* out of the registry.
C30_SilentClosed ==
  \A c \in Conns :
    (sockets[c].open /\ ~sockets[c].answering)
      ~> (~sockets[c].open
            /\ \A i \in 1..Len(connections) : connections[i].ws # c)

\* C31: a finish reports success only if the result snapshot is stored: a
\* failure of the status write leaves the status alone and builds no
\* result, and a failure of the snapshot write, which leaves the session
\* finished, is reported as a failure.
C31_FinishReportsFailure ==
  /\ \A p \in Procs :
       (proc[p].op = "finish" /\ proc[p].pc = "done"
          /\ proc[p].ret = <<"true">>)
        => results[proc[p].sid] # NoResult
  /\ \A s \in SessionIds :
       results[s] # NoResult => sessions[s].status = "finished"

\* the players other than pid whose stored answers hold a correct answer
\* for qid
EarlierCorrect(pid, qid) ==
  {j \in PlayerIds \ {pid} :
     \E k \in 1..Len(players[j].answers) :
       /\ players[j].answers[k].questionId = qid
       /\ players[j].answers[k].isCorrect}

\* C32: with submits processed one at a time, a correct answer that is the
\* k-th correct answer to its question returns rank k of k and the points
\* round(b * (k + 1) / (2k)), that is b for k = 1 and
\* round(b * (1 - (k - 1) / (2k))) after; its write adds these points to the
\* player's score and leaves every other player, and so the points of the
\* earlier answers, as they were.
C32_SequentialRank ==
  [][\A p \in Procs :
       (proc[p].pc = "a_update" /\ proc'[p].pc = "done")
        => /\ \A j \in PlayerIds \ {proc[p].pid} : players'[j] = players[j]
           /\ proc'[p].ret[2] =>
                LET k == Cardinality(EarlierCorrect(proc[p].pid, proc[p].qid)) + 1
                    b == BasePoints(proc[p].qid)
                IN /\ proc'[p].ret[4] = k /\ proc'[p].ret[5] = k
                   /\ IsRound(proc'[p].ret[3], b * (k + 1), 2 * k)
                   /\ k = 1 => proc'[p].ret[3] = b
                   /\ (k = 2 /\ b = 100) => proc'[p].ret[3] = 75
                   /\ players'[proc[p].pid].score =
                        players[proc[p].pid].score + proc'[p].ret[3]]_vars

\* C32 witness: player 1 holds 100 points and player 2, who answered
\* after, 75 points for q1.
C32_Witness ==
  /\ Len(players[1].answers) = 1 /\ players[1].answers[1].questionId = "q1"
  /\ players[1].answers[1].points = 100
  /\ Len(players[2].answers) = 1 /\ players[2].answers[1].questionId = "q1"
  /\ players[2].answers[1].points = 75 /\ players[2].score = 75


\* the submit call of p has passed every check of submitAnswer
Accepted(p) == proc[p].op = "submit" /\ proc[p].pc \in {"a_rank", "a_update"}

\* C33: a submit on an active session for a question of the quiz is turned
\* down only when the player is not in the session, has already answered the
\* question or sends a choice out of range, whatever currentQuestionIndex
\* is; an answer that passes is stored with the player.
C33_AnyQuestion ==
  [][\A p \in Procs :
       /\ (Ready(p) /\ proc'[p] # proc[p] /\ proc'[p].op = "submit"
            /\ sessions[proc'[p].sid].status = "active"
            /\ QuestionIndex(getQuiz(sessions[proc'[p].sid].quizId),
                             proc'[p].qid) # 0)
           => proc'[p].pc = "a_players"
       /\ (proc[p].pc = "a_players" /\ proc'[p].pc = "done")
           => LET plist == getSessionPlayers(proc[p].sid)
                  i == PlayerIndex(plist, proc[p].pid)
                  quiz == getQuiz(proc[p].quizId)
              IN \/ i = 0
                 \/ HasAnswer(plist[i].answers, proc[p].qid)
                 \/ InvalidChoice(proc[p].choice,
                                  quiz[QuestionIndex(quiz, proc[p].qid)])
       /\ (Accepted(p) /\ proc'[p].pc = "done")
           => /\ proc'[p].ret[1] = "answer"
              /\ HasAnswer(players'[proc[p].pid].answers, proc[p].qid)]_vars

\* C33 witness: no question has been served yet and the player's answers to
\* q2 and q1 are stored.
C33_Witness ==
  /\ sessions[1].status = "active" /\ sessions[1].currentQuestionIndex = 0
  /\ HasAnswer(players[1].answers, "q1")
  /\ HasAnswer(players[1].answers, "q2")


\* C34: a session becomes finished only from active, and a game result is
\* stored only for a session that was active: a finish_game sent for a
\* waiting session leaves its status and builds no result.
C34_FinishedFromActive ==
  [][\A s \in SessionIds :
       /\ (sessions[s].status # "finished" /\ sessions'[s].status = "finished")
           => sessions[s].status = "active"
       /\ (results[s] = NoResult /\ results'[s] # NoResult)
           => sessions[s].startedAt # 0]_vars


\* C35: game_ended is sent to the connections of a session only while the
\* stored status of that session is finished; a next_question that fails
\* sends no game_ended.
C35_EndedWhenFinished ==
  [][\A p \in Procs :
       SentTo(p, {"game_ended"}) # {}
         => sessions[proc[p].sid].status = "finished"]_vars


\* handler p sends a message with this error code in this step
SendsError(p, code) ==
  \E j \in Len(handler[p].out) + 1 .. Len(handler'[p].out) :
    handler'[p].out[j].type = "error" /\ handler'[p].out[j].code = code

\* C36: a start_game answered with GAME_START_ERROR has not started the
\* game: the reply follows a startGame call that returned false, which has
\* written nothing, and never a startGame call that made the session active.
C36_StartErrorNotStarted ==
  [][\A p \in Procs :
       SendsError(p, "GAME_START_ERROR")
         => handler[p].pc = "startGame" /\ proc[p].ret = <<"false">>]_vars


\* C37: answer_revealed goes out only with a question that nextQuestion has
\* already returned for the session, one of the first currentQuestionIndex
\* questions of the quiz; on a session where no question has been served
\* no correct answer is disclosed.
C37_RevealsServedQuestion ==
  [][\A p \in Procs :
       SentTo(p, {"answer_revealed"}) # {}
         => LET sess == sessions[proc[p].sid] IN
            /\ QuestionIndex(getQuiz(sess.quizId), proc[p].qid) >= 1
            /\ QuestionIndex(getQuiz(sess.quizId), proc[p].qid)
                 <= sess.currentQuestionIndex]_vars


\* C38: once a session is finished no player of it changes, and a stored
\* game result carries the leaderboard of the players' scores as they stand,
\* also when a submit that read the session as active writes late.
C38_FinalScores ==
  [][\A s \in SessionIds :
       sessions[s].status = "finished"
         => /\ \A i \in PlayerIds :
                 players[i].sessionId = s => players'[i] = players[i]
            /\ results'[s] # NoResult
                 => results'[s].leaderboard =
                      Leaderboard(PlayersFrom(s, 1))']_vars


\* C39: the status and the currentQuestionIndex of session S change only in
\* a step of a handler whose connection is registered as the host of S; a
\* host connection of another session changes neither by naming S.
C39_OwnHostOnly ==
  [][\A s \in SessionIds :
       (\/ sessions'[s].status # sessions[s].status
        \/ sessions'[s].currentQuestionIndex # sessions[s].currentQuestionIndex)
        => \E p \in Procs :
             /\ proc'[p] # proc[p]
             /\ sockets[handler[p].conn].isHost
             /\ sockets[handler[p].conn].sessionId = s]_vars


\* C40: every entry of the registry points to a connection whose current
\* sessionId and playerId are those of the entry's key, so a connection
\* registered under session S takes part in the broadcasts to S, also after
\* it has joined more than once.
C40_KeyMatchesConnection ==
  \A i \in 1..Len(connections) :
    connections[i].key =
      ConnectionKey(sockets[connections[i].ws].sessionId,
                    sockets[connections[i].ws].playerId)

====
